---------------------------- MODULE Spec2Model ----------------------------
(***************************************************************************)
(* Order lifecycle and ledger subsystem of the marketplace backend:        *)
(* checkout (orderController.createOrder / createOrderWithPayment), seller *)
(* status updates and the COD wallet credit, cancellation and refund, the  *)
(* carrier status mapper with the webhook and tracking-poll handlers, and  *)
(* the approval of return requests with its charge allocation.             *)
(*                                                                         *)
(* Money is counted in paise.  Carrier status codes are sequences of       *)
(* one-character strings so that toUpperCase, trim and startsWith are      *)
(* computed, not assumed.  A time stamp taken by a handler run is named by *)
(* the ordinal of the shipment event the same run logs (0: never set).     *)
(***************************************************************************)
EXTENDS Integers, Sequences, FiniteSets, TLC

(***************************************************************************)
(* Bounds of the model.                                                    *)
(***************************************************************************)
\* longest shipment event log the model follows
MaxEvents == 2
\* requests in flight or finished that a concurrent run follows
MaxRequests == 2
\* calls with status 'delivered' the history counts before it saturates
MaxCounted == 3
\* return requests created for one order
MaxReturns == 1
\* orders in the store when a further checkout is still followed
MaxOrders == 2

\* refund requests in flight
MaxRefunds == 1
\* withdrawal requests stored
MaxWithdrawals == 2
\* payouts made to sellers
MaxPayouts == 2

(***************************************************************************)
(* String helpers (JavaScript String.prototype methods).                   *)
(***************************************************************************)
LowerChars == <<"a","b","c","d","e","f","g","h","i","j","k","l","m",
                "n","o","p","q","r","s","t","u","v","w","x","y","z">>

UpperChars == <<"A","B","C","D","E","F","G","H","I","J","K","L","M",
                "N","O","P","Q","R","S","T","U","V","W","X","Y","Z">>

UpperChar(c) ==
    IF \E i \in DOMAIN LowerChars : LowerChars[i] = c
    THEN UpperChars[CHOOSE i \in DOMAIN LowerChars : LowerChars[i] = c]
    ELSE c

\* String.prototype.toUpperCase
toUpperCase(s) == [i \in DOMAIN s |-> UpperChar(s[i])]

RECURSIVE trimStart(_)
trimStart(s) ==
    IF s # <<>> /\ Head(s) = " " THEN trimStart(Tail(s)) ELSE s

RECURSIVE trimEnd(_)
trimEnd(s) ==
    IF s # <<>> /\ s[Len(s)] = " " THEN trimEnd(SubSeq(s, 1, Len(s) - 1)) ELSE s

\* String.prototype.trim
trim(s) == trimEnd(trimStart(s))

\* String.prototype.startsWith
startsWith(s, p) == Len(s) >= Len(p) /\ SubSeq(s, 1, Len(p)) = p

(***************************************************************************)
(* utils/rapidshypStatusMapper.js                                          *)
(***************************************************************************)
Row(internal, shipping, returning) ==
    [internalStatus |-> internal, shippingStatus |-> shipping,
     isReturning |-> returning]

\* The carrier status table: code -> (internalStatus, shippingStatus,
\* isReturning); a row without isReturning in the source reads as FALSE.
STATUS_MAP ==
    <<"S","C","B">> :> Row("created", "pending", FALSE) @@
    <<"P","S","H">> :> Row("processing", "pending", FALSE) @@
    <<"O","F","P">> :> Row("processing", "pending", FALSE) @@
    <<"P","U","E">> :> Row("processing", "pending", FALSE) @@
    <<"P","C","N">> :> Row("cancelled", "cancelled", FALSE) @@
    <<"P","U","C">> :> Row("processing", "shipped", FALSE) @@
    <<"S","P","D">> :> Row("processing", "shipped", FALSE) @@
    <<"I","N","T">> :> Row("processing", "shipped", FALSE) @@
    <<"R","A","D">> :> Row("processing", "shipped", FALSE) @@
    <<"D","E","D">> :> Row("processing", "shipped", FALSE) @@
    <<"O","F","D">> :> Row("processing", "shipped", FALSE) @@
    <<"D","E","L">> :> Row("delivered", "delivered", FALSE) @@
    <<"U","N","D">> :> Row("processing", "shipped", FALSE) @@
    <<"R","T","O","_","R","E","Q">> :> Row("cancelled", "shipped", TRUE) @@
    <<"R","T","O">> :> Row("cancelled", "shipped", TRUE) @@
    <<"R","T","O","_","I","N","T">> :> Row("cancelled", "shipped", TRUE) @@
    <<"R","T","O","_","R","A","D">> :> Row("cancelled", "shipped", TRUE) @@
    <<"R","T","O","_","O","F","D">> :> Row("cancelled", "shipped", TRUE) @@
    <<"R","T","O","_","D","E","L">> :> Row("cancelled", "delivered", TRUE) @@
    <<"R","T","O","_","U","N","D">> :> Row("cancelled", "shipped", TRUE) @@
    <<"C","A","N">> :> Row("cancelled", "cancelled", FALSE) @@
    <<"O","N","H">> :> Row("processing", "shipped", FALSE) @@
    <<"L","S","T">> :> Row("cancelled", "cancelled", FALSE) @@
    <<"D","M","G">> :> Row("processing", "shipped", FALSE) @@
    <<"M","S","R">> :> Row("processing", "shipped", FALSE) @@
    <<"D","P","O">> :> Row("cancelled", "cancelled", FALSE)

\* getStatusDetails: an empty or missing code gives the 'Unknown' record
\* (no code field, written here as the empty code); a code of the table
\* gives its row; any other code gives the default row.
getStatusDetails(statusCode) ==
    IF statusCode = <<>>
    THEN [internalStatus |-> "pending", shippingStatus |-> "pending",
          isReturning |-> FALSE, code |-> <<>>]
    ELSE LET code == toUpperCase(statusCode)
         IN  IF code \in DOMAIN STATUS_MAP
             THEN [internalStatus |-> STATUS_MAP[code].internalStatus,
                   shippingStatus |-> STATUS_MAP[code].shippingStatus,
                   isReturning |-> STATUS_MAP[code].isReturning,
                   code |-> code]
             ELSE [internalStatus |-> "processing", shippingStatus |-> "shipped",
                   isReturning |-> FALSE, code |-> code]

\* a mapping that moves on from the current status instead of reading the table
mapToNextOrderStatus(statusCode, currentOrderStatus) ==
    IF currentOrderStatus = "processing" THEN "shipped"
    ELSE getStatusDetails(statusCode).internalStatus

mapToOrderStatus(statusCode, currentOrderStatus) ==
    getStatusDetails(statusCode).internalStatus

mapToShippingStatus(statusCode) ==
    getStatusDetails(statusCode).shippingStatus

isRTOStatus(statusCode) ==
    \/ getStatusDetails(statusCode).isReturning
    \/ startsWith(toUpperCase(statusCode), <<"R","T","O">>)

(***************************************************************************)
(* The persistent store and the world around it.                           *)
(***************************************************************************)
VARIABLES
    products,   \* Product collection: id -> [seller, price, stock, totalSold]
    orders,     \* Order collection, in insertion order
    wallet,     \* User.walletBalance of the vendor's user and of the admin
    coupon,     \* the one Coupon document: [isActive, usedBy, usageLimit]
    cart,       \* User.cart of each buyer, as its number of entries
    gateway,    \* payment gateway: payment id -> state of the payment
    returns,    \* ReturnRequest collection, in insertion order
    withdrawals, \* Withdrawal collection, in insertion order
    payouts,    \* Withdrawal ids issued, and the payouts made so far
    procs,      \* requests in flight: per request its position and locals
    ledger,     \* history: per kind of wallet $inc, how many and their sum
    carrier,    \* history: the last carrier event applied and what it met
    calls,      \* history: updateOrderStatus('delivered') calls so far
    resp        \* the status code of the last HTTP response

vars == <<products, orders, wallet, coupon, cart, gateway, returns, withdrawals,
          payouts, procs, ledger, carrier, calls, resp>>

\* what the lifecycle handlers of one order never touch
catalog == <<products, coupon, cart, gateway, returns, withdrawals, payouts>>

Buyers == {"u1", "u2"}

ProductIds == {"p1", "p2", "p3"}

\* Seller.userId of a seller document
SellerUser(s) == IF s = "s1" THEN "vendor1" ELSE "vendor2"

Users == {"vendor1", "vendor2", "admin"}

(***************************************************************************)
(* utils/razorpay: verifyPayment and getPaymentDetails.  The HMAC is an    *)
(* ideal one: two tags are equal exactly when key and message are.         *)
(***************************************************************************)
RAZORPAY_KEY_SECRET == "server-secret"

createHmac(key, body) == [key |-> key, msg |-> body]

NoSignature == [key |-> "none", msg |-> <<>>]

\* a comparison of the signed message alone, whatever key signed it
verifyMessageOnly(razorpay_order_id, razorpay_payment_id, razorpay_signature) ==
    razorpay_signature.msg = razorpay_order_id \o <<"|">> \o razorpay_payment_id

verifyPayment(razorpay_order_id, razorpay_payment_id, razorpay_signature) ==
    LET body == razorpay_order_id \o <<"|">> \o razorpay_payment_id
        expectedSignature == createHmac(RAZORPAY_KEY_SECRET, body)
    IN  expectedSignature = razorpay_signature

PaymentStates == {"captured", "authorized", "failed", "unreachable"}

(***************************************************************************)
(* Pricing (orderController.js, inline in both checkout handlers and in    *)
(* updateOrderStatus).  Amounts are in paise.                              *)
(***************************************************************************)
\* commission rate 0.07, as a percentage
RatePercent == 7

\* Number(x.toFixed(2)) of x = n / d rupee-hundredths: round half up
toFixed2(n, d) == (2 * n + d) \div (2 * d)

\* the commission at the former default rate of 10 per cent
computeCommissionAtTen(itemsPrice) == toFixed2(itemsPrice * 10, 100)

computeCommission(itemsPrice) == toFixed2(itemsPrice * RatePercent, 100)

computeSellerEarnings(itemsPrice) == itemsPrice - computeCommission(itemsPrice)

RECURSIVE SumItems(_)
SumItems(orderItems) ==
    IF orderItems = <<>> THEN 0
    ELSE Head(orderItems).price * Head(orderItems).quantity
         + SumItems(Tail(orderItems))

NoShipment ==
    [shipmentId |-> FALSE, awb |-> FALSE, status |-> <<>>,
     isReturning |-> FALSE, events |-> 0, courierCost |-> 0,
     rtoDeliveredAt |-> 0]

\* new Order({...}) of the two checkout handlers
NewOrder(user, seller, orderItems, paymentMethod, discount, hasCoupon, orderStatus, paymentStatus, oid, pid, sig) ==
    LET itemsPrice == SumItems(orderItems)
    IN  [user |-> user, seller |-> seller, orderItems |-> orderItems,
         paymentMethod |-> paymentMethod,
         itemsPrice |-> itemsPrice, taxPrice |-> 0, shippingPrice |-> 0,
         totalPrice |-> itemsPrice + 0 + 0 - discount,
         hasEarnings |-> TRUE,
         commission |-> computeCommission(itemsPrice),
         sellerEarnings |-> computeSellerEarnings(itemsPrice),
         orderStatus |-> orderStatus, paymentStatus |-> paymentStatus,
         shippingStatus |-> "pending", refundStatus |-> "none",
         sellerCredited |-> FALSE, deliveredAt |-> 0,
         coupon |-> hasCoupon, discount |-> discount,
         razorpayOrderId |-> oid, razorpayPaymentId |-> pid,
         razorpaySignature |-> sig,
         shipment |-> NoShipment]

(***************************************************************************)
(* Checkout: orderController.createOrder and createOrderWithPayment.       *)
(* A request is [user, items, paymentMethod, coupon, discount, oid, pid,   *)
(* sig]; an item is [product, seller, quantity].                           *)
(***************************************************************************)
\* one key per item, a seller named as often as it has items
SellerOfEveryItem(items, seen) == [i \in DOMAIN items |-> items[i].seller]

\* Object.keys(itemsBySeller): the sellers in order of first appearance
RECURSIVE SellerKeys(_, _)
SellerKeys(items, seen) ==
    IF items = <<>> THEN <<>>
    ELSE IF Head(items).seller \in seen THEN SellerKeys(Tail(items), seen)
    ELSE <<Head(items).seller>>
         \o SellerKeys(Tail(items), seen \cup {Head(items).seller})

ItemsOfSeller(items, sellerId) ==
    SelectSeq(items, LAMBDA it : it.seller = sellerId)

\* the item's callback completes without throwing, judged on the product
\* document it fetched
ItemPasses(prods, sellerId, item, online) ==
    /\ item.product \in DOMAIN prods
    /\ prods[item.product].seller = sellerId
    /\ online => prods[item.product].stock >= item.quantity

\* The callbacks of one seller's items run under Promise.all: every
\* Product.findById is issued before any product.save(), so each callback
\* works on the document as it was when the group started, and the saves
\* land in item order.  A callback that throws saves nothing; the others
\* still save.
RECURSIVE SaveItems(_, _, _, _, _)
SaveItems(prods, fetched, sellerId, sellerItems, online) ==
    IF sellerItems = <<>> THEN prods
    ELSE LET item == Head(sellerItems)
             doc  == fetched[item.product]
             next ==
                 IF ItemPasses(fetched, sellerId, item, online)
                 THEN [prods EXCEPT ![item.product] =
                          [doc EXCEPT
                              !.stock = IF online THEN doc.stock - item.quantity
                                        ELSE doc.stock,
                              !.totalSold = doc.totalSold + item.quantity]]
                 ELSE prods
         IN  SaveItems(next, fetched, sellerId, Tail(sellerItems), online)

OrderItemsOf(fetched, sellerItems) ==
    [i \in DOMAIN sellerItems |->
        [product |-> sellerItems[i].product,
         price |-> fetched[sellerItems[i].product].price,
         quantity |-> sellerItems[i].quantity]]

\* The loop over the sellers: per seller the items' callbacks, then the
\* order's save.  A throw in a group ends the loop; what was saved stays.
RECURSIVE SellerLoop(_, _, _, _, _, _, _)
SellerLoop(st, sellerKeys, req, online, orderStatus, paymentStatus, method) ==
    IF sellerKeys = <<>> \/ st.thrown THEN st
    ELSE LET sellerId    == Head(sellerKeys)
             sellerItems == ItemsOfSeller(req.items, sellerId)
             fetched     == st.products
             saved       == SaveItems(fetched, fetched, sellerId, sellerItems, online)
             allPass     == \A i \in DOMAIN sellerItems :
                               ItemPasses(fetched, sellerId, sellerItems[i], online)
             order       == NewOrder(req.user, sellerId,
                                     OrderItemsOf(fetched, sellerItems), method,
                                     req.discount, req.coupon,
                                     orderStatus, paymentStatus,
                                     IF online THEN req.oid ELSE <<>>,
                                     IF online THEN req.pid ELSE <<>>,
                                     IF online THEN req.sig ELSE NoSignature)
             st2 == [products |-> saved,
                     created  |-> IF allPass THEN Append(st.created, order)
                                  ELSE st.created,
                     thrown   |-> ~allPass]
         IN  SellerLoop(st2, Tail(sellerKeys), req, online, orderStatus,
                        paymentStatus, method)

\* Coupon.findOneAndUpdate({code, isActive: true}, {$addToSet: {usedBy}})
\* and the usage-limit check after it
MarkCouponUsed(c, user) ==
    IF ~c.isActive THEN c
    ELSE LET usedBy == c.usedBy \cup {user}
         IN  [c EXCEPT !.usedBy = usedBy,
                       !.isActive = ~(c.usageLimit > 0
                                      /\ Cardinality(usedBy) >= c.usageLimit)]

ItemsComplete(items) ==
    \A i \in DOMAIN items : items[i].product # "" /\ items[i].seller # ""

\* what is left of the handler once the payment checks (if any) passed
PlaceOrders(req, online, orderStatus, paymentStatus, method, malformed, failed) ==
    IF ~ItemsComplete(req.items)
    THEN /\ resp' = malformed
         /\ UNCHANGED <<products, orders, coupon, cart>>
    ELSE LET st == SellerLoop([products |-> products, created |-> <<>>,
                               thrown |-> FALSE],
                              SellerKeys(req.items, {}), req, online,
                              orderStatus, paymentStatus, method)
         IN  /\ products' = st.products
             /\ orders' = orders \o st.created
             /\ IF st.thrown
                THEN /\ resp' = failed
                     /\ UNCHANGED <<coupon, cart>>
                ELSE /\ resp' = 201
                     /\ coupon' = IF req.coupon THEN MarkCouponUsed(coupon, req.user)
                                  ELSE coupon
                     /\ cart' = [cart EXCEPT ![req.user] = 0]

createOrder(req) ==
    /\ PlaceOrders(req, FALSE, "pending", "pending",
                   req.paymentMethod, 400, 500)
    /\ UNCHANGED <<wallet, gateway, withdrawals, payouts, returns, procs, ledger, carrier, calls>>

createOrderWithPayment(req) ==
    /\ IF ~verifyPayment(req.oid, req.pid, req.sig)
       THEN /\ resp' = 400
            /\ UNCHANGED <<products, orders, coupon, cart>>
       ELSE IF gateway[req.pid] = "unreachable"
       THEN /\ resp' = 500
            /\ UNCHANGED <<products, orders, coupon, cart>>
       ELSE IF gateway[req.pid] # "captured"
       THEN /\ resp' = 400
            /\ UNCHANGED <<products, orders, coupon, cart>>
       ELSE PlaceOrders(req, TRUE, "confirmed", "paid",
                        IF req.paymentMethod = "" THEN "razorpay"
                        ELSE req.paymentMethod, 400, 500)
    /\ UNCHANGED <<wallet, gateway, withdrawals, payouts, returns, procs, ledger, carrier, calls>>

(***************************************************************************)
(* Wallet: User.findByIdAndUpdate(id, {$inc: {walletBalance: amount}}).    *)
(* The update is one store operation and runs no schema validator, so it   *)
(* may take the balance below zero.                                        *)
(***************************************************************************)
\* the kinds of effect outside the order and return documents
LedgerKinds == {"credit", "refundDebit", "vendorCharge", "adminCharge", "refund",
                "reversePickup"}

NoLedger == [k \in LedgerKinds |-> [n |-> 0, total |-> 0]]

Booked(led, kind, amount) ==
    [led EXCEPT ![kind] = [n |-> @.n + 1, total |-> @.total + amount]]

\* a write of the amount over the stored balance
SetWallet(user, amount) == wallet' = [wallet EXCEPT ![user] = amount]

IncWallet(user, amount) == wallet' = [wallet EXCEPT ![user] = @ + amount]

(***************************************************************************)
(* The carrier history kept for replay checks: the payload of the last     *)
(* webhook applied (if no other operation came after it), whether the one  *)
(* before it was the same payload, and what that one had left behind.      *)
(***************************************************************************)
Derived(order) ==
    [orderStatus |-> order.orderStatus,
     shippingStatus |-> order.shippingStatus,
     status |-> order.shipment.status,
     isReturning |-> order.shipment.isReturning,
     events |-> order.shipment.events,
     deliveredAt |-> order.deliveredAt,
     rtoDeliveredAt |-> order.shipment.rtoDeliveredAt]

NoDerived ==
    [orderStatus |-> "", shippingStatus |-> "", status |-> <<>>,
     isReturning |-> FALSE, events |-> 0, deliveredAt |-> 0,
     rtoDeliveredAt |-> 0]

NoPayload == [target |-> 0, status |-> <<>>, current_status |-> <<>>, awb |-> FALSE]

NoCarrier == [seen |-> FALSE, payload |-> NoPayload, replay |-> FALSE,
              before |-> NoDerived]

(***************************************************************************)
(* orderController.updateOrderStatus                                       *)
(***************************************************************************)
\* "Do not allow updates on cancelled/refunded orders"
UpdateRejected(order) ==
    \/ order.orderStatus = "cancelled"
    \/ order.refundStatus = "pending"
    \/ order.paymentStatus = "refunded"

\* the condition without its test of paymentStatus
CreditsOnEveryDelivery(order, status) ==
    /\ order.paymentMethod = "cod"
    /\ status = "delivered"

\* "If COD and delivered now, mark paid and credit seller wallet"
CreditsOnDelivery(order, status) ==
    /\ order.paymentMethod = "cod"
    /\ status = "delivered"
    /\ order.paymentStatus # "paid"

\* the document in memory after the handler's assignments
UpdatedOrder(order, status) ==
    LET o1 == [order EXCEPT !.orderStatus = status]
        itemsPrice == IF order.itemsPrice # 0 THEN order.itemsPrice
                      ELSE SumItems(order.orderItems)
        o2 == IF order.hasEarnings THEN o1
              ELSE [o1 EXCEPT !.hasEarnings = TRUE,
                              !.commission = computeCommission(itemsPrice),
                              !.sellerEarnings = computeSellerEarnings(itemsPrice)]
    IN  IF CreditsOnDelivery(order, status)
        THEN [o2 EXCEPT !.paymentStatus = "paid"]
        ELSE o1

\* the amount of the $inc issued, 0 when none is issued
CreditAmount(order, status) ==
    IF CreditsOnDelivery(order, status)
    THEN UpdatedOrder(order, status).sellerEarnings
    ELSE 0

NoCalls == [accepted |-> 0, rejected |-> 0]

Saturating(n) == IF n < MaxCounted THEN n + 1 ELSE n

\* the history of calls with status 'delivered', by their answer
Counted(c, status, accepted) ==
    IF status # "delivered" THEN c
    ELSE IF accepted THEN [c EXCEPT !.accepted = Saturating(@)]
    ELSE [c EXCEPT !.rejected = Saturating(@)]

updateOrderStatus(i, status) ==
    /\ i \in DOMAIN orders
    /\ IF UpdateRejected(orders[i])
       THEN /\ resp' = 400
            /\ UNCHANGED <<orders, wallet, ledger, carrier>>
       ELSE LET amount == CreditAmount(orders[i], status)
            IN  /\ orders' = [orders EXCEPT ![i] = UpdatedOrder(orders[i], status)]
                /\ IF amount # 0
                   THEN /\ IncWallet(SellerUser(orders[i].seller), amount)
                        /\ ledger' = Booked(ledger, "credit", amount)
                   ELSE UNCHANGED <<wallet, ledger>>
                /\ carrier' = NoCarrier
                /\ resp' = 200
    /\ UNCHANGED <<catalog, procs>>

(***************************************************************************)
(* orderController.cancelOrder, adminApproveCancellation, adminRefundOrder *)
(***************************************************************************)
StatusRto == <<"r","t","o">>

StatusCancelled == <<"c","a","n","c","e","l","l","e","d">>

StatusReturned == <<"r","e","t","u","r","n","e","d">>

\* rtoCreated: rapidShyp.createRTO answered success
cancelOrder(i, rtoCreated) ==
    /\ i \in DOMAIN orders
    /\ LET order == orders[i]
           previousStatus == order.orderStatus
           marksRto == /\ order.shipment.shipmentId
                       /\ order.shipment.status # StatusCancelled
                       /\ order.shipment.status # StatusReturned
           callsRto == /\ marksRto
                       /\ order.shippingStatus = "shipped"
                       /\ previousStatus = "processing"
           logged == callsRto /\ rtoCreated
       IN  /\ rtoCreated => callsRto
           /\ logged => order.shipment.events < MaxEvents
           /\ orders' = [orders EXCEPT ![i] =
                 [order EXCEPT
                     !.orderStatus = "cancelled",
                     !.shipment.isReturning = IF marksRto THEN TRUE ELSE @,
                     !.shipment.status = IF marksRto THEN StatusRto ELSE @,
                     !.shipment.events = IF logged THEN @ + 1 ELSE @]]
    /\ carrier' = NoCarrier
    /\ resp' = 200
    /\ UNCHANGED <<catalog, wallet, ledger, procs, calls>>

adminApproveCancellation(i) ==
    /\ i \in DOMAIN orders
    /\ orders' = [orders EXCEPT ![i] =
          [@ EXCEPT !.orderStatus = "cancelled",
                    !.refundStatus = IF orders[i].paymentMethod # "cod"
                                     THEN "pending" ELSE @]]
    /\ carrier' = NoCarrier
    /\ resp' = 200
    /\ UNCHANGED <<catalog, wallet, ledger, procs, calls>>

RefundRejected(order) ==
    \/ order.paymentMethod = "cod"
    \/ order.paymentStatus # "paid"
    \/ order.refundStatus # "pending"
    \/ order.razorpayPaymentId = <<>>

\* order.itemsPrice || order.totalPrice || 0
RefundAmount(order) ==
    IF order.itemsPrice # 0 THEN order.itemsPrice ELSE order.totalPrice

\* -Math.abs(order.sellerEarnings), 0 when sellerEarnings is falsy
RefundDebit(order) ==
    IF order.sellerEarnings >= 0 THEN 0 - order.sellerEarnings
    ELSE order.sellerEarnings

\* refunded: refundPayment returned rather than threw
adminRefundOrder(i, refunded) ==
    /\ i \in DOMAIN orders
    /\ IF RefundRejected(orders[i]) \/ ~refunded
       THEN /\ resp' = IF RefundRejected(orders[i]) THEN 400 ELSE 500
            /\ UNCHANGED <<orders, wallet, ledger, carrier>>
       ELSE LET debit == RefundDebit(orders[i])
            IN  /\ orders' = [orders EXCEPT ![i] =
                      [@ EXCEPT !.paymentStatus = "refunded",
                                !.refundStatus = "refunded"]]
                /\ IF debit # 0
                   THEN /\ IncWallet(SellerUser(orders[i].seller), debit)
                        /\ ledger' = Booked(Booked(ledger, "refund",
                                                   RefundAmount(orders[i])),
                                            "refundDebit", 0 - debit)
                   ELSE /\ ledger' = Booked(ledger, "refund", RefundAmount(orders[i]))
                        /\ UNCHANGED wallet
                /\ carrier' = NoCarrier
                /\ resp' = 200
    /\ UNCHANGED <<catalog, procs, calls>>

(***************************************************************************)
(* Shipping controller: webhook, trackOrder, createShipmentForOrder,       *)
(* cancelShipmentForOrder, ndrAction.                                      *)
(***************************************************************************)
CodeDEL == <<"D","E","L">>

CodeRTO == <<"R","T","O">>

CodeRTOREQ == <<"R","T","O","_","R","E","Q">>

CodeRTODEL == <<"R","T","O","_","D","E","L">>

CodeSCB == <<"S","C","B">>

CodePSH == <<"P","S","H">>

\* a || b on status codes: the empty code is falsy
OrElse(a, b) == IF a # <<>> THEN a ELSE b

\* the `if (status) {...}` block of the webhook handler
ApplyStatus(order, status) ==
    LET statusCode == trim(toUpperCase(status))
        statusDetails == getStatusDetails(statusCode)
        newOrderStatus == mapToOrderStatus(statusCode, order.orderStatus)
        newShippingStatus == mapToShippingStatus(statusCode)
        o1 == [order EXCEPT !.shipment.status = OrElse(statusDetails.code, statusCode)]
        \* "Don't downgrade from delivered to processing"
        o2 == IF /\ newOrderStatus # o1.orderStatus
                 /\ ~(o1.orderStatus = "delivered" /\ newOrderStatus # "delivered")
              THEN [o1 EXCEPT !.orderStatus = newOrderStatus]
              ELSE o1
        o3 == [o2 EXCEPT !.shippingStatus = newShippingStatus]
        o4 == IF isRTOStatus(statusCode)
              THEN [o3 EXCEPT !.shipment.isReturning = TRUE,
                              !.orderStatus = IF statusCode = CodeRTO
                                                 \/ statusCode = CodeRTOREQ
                                              THEN "cancelled" ELSE @]
              ELSE o3
        \* order.deliveredAt = new Date()
        o5 == IF statusCode = CodeDEL
              THEN [o4 EXCEPT !.deliveredAt = order.shipment.events,
                              !.orderStatus = "delivered",
                              !.shippingStatus = "delivered"]
              ELSE o4
    IN  IF statusCode = CodeRTODEL
        THEN [o5 EXCEPT !.shipment.rtoDeliveredAt = order.shipment.events,
                        !.orderStatus = "cancelled",
                        !.shippingStatus = "delivered"]
        ELSE o5

\* the handler on the order a payload resolved to
ApplyWebhook(order, payload) ==
    LET o0 == [order EXCEPT !.shipment.events = @ + 1]
        o1 == IF payload.status # <<>> THEN ApplyStatus(o0, payload.status) ELSE o0
        o2 == IF payload.current_status # <<>>
              THEN LET trackingStatusCode == trim(toUpperCase(payload.current_status))
                   IN  [o1 EXCEPT !.shipment.status =
                           OrElse(getStatusDetails(trackingStatusCode).code,
                                  trackingStatusCode)]
              ELSE o1
    IN  IF payload.awb /\ ~o2.shipment.awb
        THEN [o2 EXCEPT !.shipment.awb = TRUE]
        ELSE o2

\* payload.target is the order the payload's ids resolve to, 0 when none
webhook(payload) ==
    /\ IF payload.target \in DOMAIN orders
       THEN LET order == orders[payload.target]
            IN  /\ order.shipment.events < MaxEvents
                /\ orders' = [orders EXCEPT ![payload.target] =
                                 ApplyWebhook(order, payload)]
                /\ carrier' =
                      IF carrier.seen /\ carrier.payload = payload
                      THEN [seen |-> TRUE, payload |-> payload, replay |-> TRUE,
                            before |-> Derived(order)]
                      ELSE [seen |-> TRUE, payload |-> payload, replay |-> FALSE,
                            before |-> NoDerived]
       ELSE UNCHANGED <<orders, carrier>>
    /\ resp' = 200
    /\ UNCHANGED <<catalog, wallet, ledger, procs, calls>>

\* processTrackingResponse on the first shipment of the first record:
\* statusCode is the carrier's code as sent
processTrackingResponse(statusCode) ==
    LET statusDetails == getStatusDetails(statusCode)
    IN  [statusCode |-> statusCode,
         currentStatus |-> statusDetails.internalStatus,
         shippingStatus |-> statusDetails.shippingStatus,
         isReturning |-> statusDetails.isReturning]

\* track is the carrier's answer: [success, found, statusCode, scans]
trackOrder(i, track) ==
    /\ i \in DOMAIN orders
    /\ IF ~track.success
       THEN /\ resp' = 400
            /\ UNCHANGED orders
       ELSE /\ resp' = 200
            /\ IF ~track.found
               THEN UNCHANGED orders
               ELSE LET shipment == processTrackingResponse(track.statusCode)
                        order == orders[i]
                    IN  /\ order.shipment.events + track.scans <= MaxEvents
                        /\ orders' = [orders EXCEPT ![i] =
                              [order EXCEPT
                                  !.shipment.status = OrElse(shipment.statusCode, @),
                                  !.shipment.isReturning =
                                      IF shipment.isReturning THEN TRUE ELSE @,
                                  !.orderStatus = shipment.currentStatus,
                                  !.shippingStatus = shipment.shippingStatus,
                                  !.shipment.events = @ + track.scans]]
    /\ carrier' = NoCarrier
    /\ UNCHANGED <<catalog, wallet, ledger, procs, calls>>

\* created is the carrier's answer: [success, statusCode, awb, courierCost]
createShipmentForOrder(i, created) ==
    /\ i \in DOMAIN orders
    /\ IF orders[i].shipment.shipmentId \/ ~created.success
       THEN /\ resp' = 400
            /\ UNCHANGED orders
       ELSE LET order == orders[i]
                statusDetails == getStatusDetails(created.statusCode)
                status == OrElse(statusDetails.code, CodeSCB)
                details == getStatusDetails(status)
            IN  /\ resp' = 200
                /\ orders' = [orders EXCEPT ![i] =
                      [order EXCEPT
                          !.shipment.shipmentId = TRUE,
                          !.shipment.awb = created.awb,
                          !.shipment.courierCost = created.courierCost,
                          !.shipment.status = status,
                          !.shipment.isReturning = statusDetails.isReturning,
                          !.shippingStatus = details.shippingStatus,
                          !.orderStatus =
                              IF @ = "pending" /\ details.internalStatus = "processing"
                              THEN "processing" ELSE @]]
    /\ carrier' = NoCarrier
    /\ UNCHANGED <<catalog, wallet, ledger, procs, calls>>

\* cancelled: rapidShyp.cancelOrder answered success
cancelShipmentForOrder(i, cancelled) ==
    /\ i \in DOMAIN orders
    /\ IF ~cancelled
       THEN /\ resp' = 400
            /\ UNCHANGED orders
       ELSE /\ orders[i].shipment.events < MaxEvents
            /\ resp' = 200
            /\ orders' = [orders EXCEPT ![i] =
                  [@ EXCEPT !.shipment.status = StatusCancelled,
                            !.shipment.events = @ + 1,
                            !.orderStatus = "cancelled",
                            !.shippingStatus = "pending"]]
    /\ carrier' = NoCarrier
    /\ UNCHANGED <<catalog, wallet, ledger, procs, calls>>

\* action is "RE_ATTEMPT" or "RETURN"; done: rapidShyp.ndrAction succeeded
ndrAction(i, action, done) ==
    /\ i \in DOMAIN orders
    /\ IF ~orders[i].shipment.awb \/ ~done
       THEN /\ resp' = 400
            /\ UNCHANGED orders
       ELSE /\ orders[i].shipment.events < MaxEvents
            /\ resp' = 200
            /\ orders' = [orders EXCEPT ![i] =
                  IF action = "RETURN"
                  THEN [@ EXCEPT !.shipment.events = @ + 1,
                                 !.shipment.isReturning = TRUE,
                                 !.shipment.status = StatusRto,
                                 !.orderStatus = "cancelled"]
                  ELSE [@ EXCEPT !.shipment.events = @ + 1]]
    /\ carrier' = NoCarrier
    /\ UNCHANGED <<catalog, wallet, ledger, procs, calls>>

(***************************************************************************)
(* returnController: createReturnRequest, approveReturnRequest and         *)
(* rejectReturnRequest.  A reason text is a sequence of characters.        *)
(***************************************************************************)
LowerChar(c) ==
    IF \E i \in DOMAIN UpperChars : UpperChars[i] = c
    THEN LowerChars[CHOOSE i \in DOMAIN UpperChars : UpperChars[i] = c]
    ELSE c

\* String.prototype.toLowerCase
toLowerCase(s) == [i \in DOMAIN s |-> LowerChar(s[i])]

\* String.prototype.includes
includes(s, keyword) ==
    \E i \in 0..(Len(s) - Len(keyword)) : SubSeq(s, i + 1, i + Len(keyword)) = keyword

\* keywords indicating vendor sent wrong size
vendorFaultKeywords ==
    { <<"w","r","o","n","g"," ","s","i","z","e"," ","s","e","n","t">>,
      <<"w","r","o","n","g"," ","s","i","z","e">>,
      <<"s","i","z","e"," ","m","i","s","m","a","t","c","h">>,
      <<"o","r","d","e","r","e","d"," ","d","i","f","f","e","r","e","n","t"," ","s","i","z","e"," ","b","u","t"," ","g","o","t">>,
      <<"v","e","n","d","o","r"," ","s","e","n","t"," ","w","r","o","n","g">>,
      <<"w","r","o","n","g"," ","o","n","e"," ","s","e","n","t">>,
      <<"n","o","t"," ","w","h","a","t"," ","o","r","d","e","r","e","d">>,
      <<"r","e","c","e","i","v","e","d"," ","w","r","o","n","g"," ","s","i","z","e">>,
      <<"s","e","n","t"," ","w","r","o","n","g">>,
      <<"w","r","o","n","g"," ","v","a","r","i","a","n","t">>,
      <<"d","i","f","f","e","r","e","n","t"," ","s","i","z","e"," ","r","e","c","e","i","v","e","d">>,
      <<"s","i","z","e"," ","s","e","n","t"," ","w","r","o","n","g">>,
      <<"o","r","d","e","r","e","d"," ","o","n","e"," ","s","i","z","e"," ","b","u","t"," ","g","o","t">>,
      <<"w","r","o","n","g"," ","s","i","z","e"," ","d","e","l","i","v","e","r","e","d">> }

\* keywords indicating customer ordered wrong size
customerFaultKeywords ==
    { <<"o","r","d","e","r","e","d"," ","w","r","o","n","g">>,
      <<"m","y"," ","m","i","s","t","a","k","e">>,
      <<"i"," ","o","r","d","e","r","e","d"," ","w","r","o","n","g">>,
      <<"w","r","o","n","g"," ","s","e","l","e","c","t","i","o","n">>,
      <<"m","i","s","t","a","k","e"," ","i","n"," ","o","r","d","e","r">>,
      <<"o","r","d","e","r","e","d"," ","d","i","f","f","e","r","e","n","t">>,
      <<"w","r","o","n","g"," ","c","h","o","i","c","e">>,
      <<"m","y"," ","f","a","u","l","t">>,
      <<"o","r","d","e","r","e","d"," ","b","y"," ","m","i","s","t","a","k","e">>,
      <<"c","h","o","s","e"," ","w","r","o","n","g">>,
      <<"s","e","l","e","c","t","e","d"," ","w","r","o","n","g">> }

\* customer changed mind keywords
customerChangedMindKeywords ==
    { <<"c","h","a","n","g","e","d"," ","m","i","n","d">>,
      <<"c","h","a","n","g","e"," ","m","i","n","d">>,
      <<"n","o","t"," ","n","e","e","d","e","d">>,
      <<"d","o","n","'","t"," ","w","a","n","t">>,
      <<"d","o","n","t"," ","w","a","n","t">>,
      <<"n","o"," ","l","o","n","g","e","r"," ","n","e","e","d">>,
      <<"n","o"," ","l","o","n","g","e","r"," ","w","a","n","t">>,
      <<"d","o","n","'","t"," ","n","e","e","d">>,
      <<"d","o","n","t"," ","n","e","e","d">>,
      <<"c","h","a","n","g","e","d"," ","m","y"," ","m","i","n","d">>,
      <<"n","o","t"," ","r","e","q","u","i","r","e","d">>,
      <<"n","o","t"," ","n","e","c","e","s","s","a","r","y">>,
      <<"o","r","d","e","r","e","d"," ","b","y"," ","m","i","s","t","a","k","e">>,
      <<"b","u","y","e","r","'","s"," ","r","e","m","o","r","s","e">>,
      <<"b","u","y","e","r","s"," ","r","e","m","o","r","s","e">>,
      <<"u","n","w","a","n","t","e","d">>,
      <<"n","o","t"," ","w","a","n","t","e","d">>,
      <<"n","o"," ","n","e","e","d">>,
      <<"u","n","n","e","c","e","s","s","a","r","y">>,
      <<"r","e","g","r","e","t">>,
      <<"c","a","n","c","e","l","l","e","d">>,
      <<"c","h","a","n","g","e","d"," ","d","e","c","i","s","i","o","n">> }

\* a resolution that looks for the customer's fault first
ScenarioCustomerFaultFirst(doc, order) ==
    LET reasonTextLower == toLowerCase(doc.reasonText)
        some(keywords) == \E keyword \in keywords : includes(reasonTextLower, keyword)
    IN  IF order.orderStatus = "cancelled" /\ order.paymentMethod = "cod"
            THEN "rto_cod"
        ELSE IF order.shipment.isReturning THEN "rto_online"
        ELSE IF doc.reasonCategory = "wrong_item" THEN "wrong_item"
        ELSE IF doc.reasonCategory = "defective" THEN "defective"
        ELSE IF doc.reasonCategory = "not_as_described" THEN "not_as_described"
        ELSE IF doc.reasonCategory = "size_issue"
            THEN IF some(customerFaultKeywords) THEN "size_issue_customer_fault"
                 ELSE "size_issue_vendor_fault"
        ELSE IF doc.reasonCategory = "other"
            THEN IF some(customerChangedMindKeywords) THEN "customer_changed_mind"
                 ELSE "other"
        ELSE "other"

\* the scenario approveReturnRequest resolves for a request and its order
Scenario(doc, order) ==
    LET reasonTextLower == toLowerCase(doc.reasonText)
        some(keywords) == \E keyword \in keywords : includes(reasonTextLower, keyword)
    IN  IF order.orderStatus = "cancelled" /\ order.paymentMethod = "cod"
            THEN "rto_cod"
        ELSE IF order.shipment.isReturning THEN "rto_online"
        ELSE IF doc.reasonCategory = "wrong_item" THEN "wrong_item"
        ELSE IF doc.reasonCategory = "defective" THEN "defective"
        ELSE IF doc.reasonCategory = "not_as_described" THEN "not_as_described"
        ELSE IF doc.reasonCategory = "size_issue"
            THEN IF some(vendorFaultKeywords) THEN "size_issue_vendor_fault"
                 ELSE IF some(customerFaultKeywords) THEN "size_issue_customer_fault"
                 ELSE "size_issue_vendor_fault"
        ELSE IF doc.reasonCategory = "other"
            THEN IF some(customerChangedMindKeywords) THEN "customer_changed_mind"
                 ELSE "other"
        ELSE "other"

\* a rounding that drops the half
MathTrunc(n, d) == (n \div d) * 100

\* Math.round(n / d) in rupees, as paise, for n >= 0 and d > 0
MathRound(n, d) == ((2 * n + d) \div (2 * d)) * 100

SharedScenarios == {"size_issue_customer_fault", "customer_changed_mind"}

\* the shares of a return charge (paise) under a scenario
Allocation(scenario, returnCharge) ==
    IF scenario \in SharedScenarios
    THEN LET vendorCharge == MathRound(returnCharge, 200)
             adminCharge == MathRound(returnCharge, 200)
         IN  [vendorCharge |-> vendorCharge,
              adminCharge |-> IF vendorCharge + adminCharge # returnCharge
                              THEN returnCharge - vendorCharge
                              ELSE adminCharge]
    ELSE [vendorCharge |-> returnCharge, adminCharge |-> 0]

\* "Recalculate charge allocation if needed": the shares re-derived from
\* the freight the carrier reports for the reverse pickup
Reallocated(chargeAllocation, newReturnCharge) ==
    LET old == chargeAllocation.totalReturnCharge
        scaled(charge) == IF old > 0 THEN MathRound(charge * newReturnCharge, 100 * old)
                          ELSE MathRound(charge, 100)
        vendorCharge == scaled(chargeAllocation.vendorCharge)
        adminCharge == scaled(chargeAllocation.adminCharge)
    IN  [chargeAllocation EXCEPT
            !.totalReturnCharge = newReturnCharge,
            !.vendorCharge = vendorCharge,
            !.adminCharge = IF vendorCharge + adminCharge # newReturnCharge
                            THEN newReturnCharge - vendorCharge
                            ELSE adminCharge]

NoAllocation ==
    [scenario |-> "other", vendorCharge |-> 0, adminCharge |-> 0,
     totalReturnCharge |-> 0, allocationApplied |-> FALSE]

\* ReturnRequest.create({...}) with the schema's defaults
NewReturn(user, order, reasonCategory, reasonText) ==
    [user |-> user, order |-> order, reasonCategory |-> reasonCategory,
     reasonText |-> reasonText, status |-> "requested",
     forwardShippingCharge |-> 0, returnShippingCharge |-> 0,
     chargeAllocation |-> NoAllocation, reverseAwb |-> FALSE]

\* the statuses in which a request awaits a decision
UndecidedStatuses == {"requested"}

OpenStatuses == {"requested", "approved", "picked"}

\* body is [user, orderId, reasonCategory, reasonText, refundDetails,
\* withinDays]: orderId 0 and reasonCategory "" stand for a missing field,
\* withinDays is the answer of isWithinDays(deliveredAt || updatedAt, 10)
createReturnRequest(body) ==
    /\ IF body.orderId = 0 \/ body.reasonCategory = "" \/ ~body.refundDetails
       THEN resp' = 400 /\ UNCHANGED returns
       ELSE IF body.orderId \notin DOMAIN orders
       THEN resp' = 404 /\ UNCHANGED returns
       ELSE IF orders[body.orderId].user # body.user
       THEN resp' = 403 /\ UNCHANGED returns
       ELSE IF orders[body.orderId].orderStatus # "delivered" \/ ~body.withinDays
       THEN resp' = 400 /\ UNCHANGED returns
       ELSE IF \E i \in DOMAIN returns :
                   /\ returns[i].user = body.user
                   /\ returns[i].order = body.orderId
                   /\ returns[i].status \in OpenStatuses
       THEN resp' = 400 /\ UNCHANGED returns
       ELSE /\ resp' = 201
            /\ returns' = Append(returns, NewReturn(body.user, body.orderId,
                                     body.reasonCategory, body.reasonText))
    /\ UNCHANGED <<products, orders, wallet, coupon, cart, gateway, withdrawals, payouts, procs,
                   ledger, carrier, calls>>

\* the request in memory when its allocation has been computed from the order
Allocated(doc, order) ==
    LET forwardCharge == order.shipment.courierCost
        returnCharge == forwardCharge
        scenario == Scenario(doc, order)
        shares == Allocation(scenario, returnCharge)
    IN  [doc EXCEPT
            !.status = "approved",
            !.forwardShippingCharge = forwardCharge,
            !.returnShippingCharge = returnCharge,
            !.chargeAllocation =
                [scenario |-> scenario,
                 vendorCharge |-> shares.vendorCharge,
                 adminCharge |-> shares.adminCharge,
                 totalReturnCharge |-> returnCharge,
                 allocationApplied |-> FALSE]]

\* "if (returnCharge > 0 && (vendorCharge > 0 || adminCharge > 0))"
Deducts(doc) ==
    /\ doc.returnShippingCharge > 0
    /\ doc.chargeAllocation.vendorCharge > 0 \/ doc.chargeAllocation.adminCharge > 0

\* the request in memory after a created reverse pickup; pickup is the
\* carrier's answer [created, awb, freight], freight 0 when none is reported
PickedUp(doc, pickup) ==
    LET d1 == [doc EXCEPT !.reverseAwb = IF pickup.awb THEN TRUE ELSE @]
    IN  IF pickup.freight # 0
        THEN [d1 EXCEPT !.returnShippingCharge = pickup.freight,
                        !.chargeAllocation = Reallocated(@, pickup.freight)]
        ELSE d1

\* the handler run from its first line to its answer with no other
\* request in between; pickup.created = FALSE stands for an answer without
\* success and for a call that threw
approveReturnRequest(i, pickup) ==
    /\ i \in DOMAIN returns
    /\ IF returns[i].status # "requested"
       THEN /\ resp' = 400
            /\ UNCHANGED <<returns, orders, wallet, ledger>>
       ELSE LET order == orders[returns[i].order]
                d1 == Allocated(returns[i], order)
                vendorCharge == d1.chargeAllocation.vendorCharge
                adminCharge == d1.chargeAllocation.adminCharge
                vendorPays == Deducts(d1) /\ vendorCharge > 0
                adminPays == Deducts(d1) /\ adminCharge > 0
                                /\ wallet["admin"] >= adminCharge
                d2 == IF Deducts(d1)
                      THEN [d1 EXCEPT !.chargeAllocation.allocationApplied = TRUE]
                      ELSE d1
                d3 == IF pickup.created THEN PickedUp(d2, pickup) ELSE d2
                l1 == IF vendorPays THEN Booked(ledger, "vendorCharge", vendorCharge)
                      ELSE ledger
                l2 == IF adminPays THEN Booked(l1, "adminCharge", adminCharge) ELSE l1
            IN  /\ returns' = [returns EXCEPT ![i] = d3]
                /\ wallet' = [wallet EXCEPT
                      ![SellerUser(order.seller)] =
                          IF vendorPays THEN @ - vendorCharge ELSE @,
                      !["admin"] = IF adminPays THEN @ - adminCharge ELSE @]
                /\ ledger' = IF pickup.created THEN Booked(l2, "reversePickup", 0)
                             ELSE l2
                /\ orders' = [orders EXCEPT ![returns[i].order] =
                      [@ EXCEPT !.shipment.isReturning = TRUE,
                                !.shipment.events =
                                    IF pickup.created THEN @ + 1 ELSE @]]
                /\ resp' = 200
    /\ UNCHANGED <<products, coupon, cart, gateway, withdrawals, payouts, procs, carrier, calls>>

rejectReturnRequest(i) ==
    /\ i \in DOMAIN returns
    /\ IF returns[i].status # "requested"
       THEN resp' = 400 /\ UNCHANGED returns
       ELSE /\ resp' = 200
            /\ returns' = [returns EXCEPT ![i].status = "rejected"]
    /\ UNCHANGED <<products, orders, wallet, coupon, cart, gateway, withdrawals, payouts, procs,
                   ledger, carrier, calls>>

ReasonTexts ==
    { <<>>,
      <<"I"," ","o","r","d","e","r","e","d"," ","w","r","o","n","g"," ","s","i","z","e">>,
      <<"M","y"," ","m","i","s","t","a","k","e">>,
      <<"U","n","w","a","n","t","e","d">> }

(***************************************************************************)
(* withdrawalController: createWithdrawalRequest, updateWithdrawalStatus.  *)
(* The balance is kept in hundredths of a paisa, so that 93 per cent of an *)
(* itemsPrice is a whole number.                                           *)
(***************************************************************************)
\* the Seller document of a user: Seller.findOne({userId})
SellerOf(user) == IF user = "vendor1" THEN "s1" ELSE "s2"

\* $cond: sellerEarnings when it is above 0, else itemsPrice - itemsPrice * 0.07
sellerEarnEff(order) ==
    IF order.sellerEarnings > 0 THEN 100 * order.sellerEarnings
    ELSE 100 * order.itemsPrice - RatePercent * order.itemsPrice

RECURSIVE SumEarnEff(_, _, _)
SumEarnEff(seq, seller, online) ==
    IF seq = <<>> THEN 0
    ELSE LET order == Head(seq)
             matches == /\ order.seller = seller
                        /\ IF online
                           THEN order.paymentMethod # "cod" /\ order.paymentStatus = "paid"
                           ELSE order.paymentMethod = "cod" /\ order.orderStatus = "delivered"
         IN  (IF matches THEN sellerEarnEff(order) ELSE 0)
             + SumEarnEff(Tail(seq), seller, online)

totalEarnings(user) ==
    SumEarnEff(orders, SellerOf(user), TRUE) + SumEarnEff(orders, SellerOf(user), FALSE)

RECURSIVE withdrawnAmount(_, _)
withdrawnAmount(seq, user) ==
    IF seq = <<>> THEN 0
    ELSE (IF Head(seq).seller = user /\ Head(seq).status = "processed"
          THEN 100 * Head(seq).amount ELSE 0)
         + withdrawnAmount(Tail(seq), user)

\* the earnings alone, whatever was withdrawn
earningsNeverWithdrawn(user) == totalEarnings(user)

\* Math.max(0, totalEarnings - withdrawnAmount)
availableBalance(user) ==
    LET left == totalEarnings(user) - withdrawnAmount(withdrawals, user)
    IN  IF left > 0 THEN left ELSE 0

WithdrawalStatuses == {"pending", "approved", "rejected", "processed"}

PayoutMethods == {"razorpay_bank", "razorpay_upi", "razorpay_wallet"}

\* what the payout provider and the id generator hold: the number of
\* Withdrawal ids issued, and one entry per payout that was made, through
\* the provider (createPayout) or by hand, with whether the status that
\* went with it was stored
NoPayouts == [issued |-> 0, made |-> <<>>]

\* req is [user, amount, numeric, paymentMethod, valid, funded]: numeric =
\* FALSE stands for an amount of which Number() makes NaN, valid is the
\* answer of the validation of the payment details, funded says that the
\* provider's keys are set and that it created contact and fund account
createWithdrawalRequest(req) ==
    /\ IF req.numeric /\ 100 * req.amount > availableBalance(req.user)
       THEN resp' = 400 /\ UNCHANGED <<withdrawals, payouts>>
       ELSE IF req.paymentMethod \notin PayoutMethods
       THEN resp' = 500 /\ UNCHANGED <<withdrawals, payouts>>
       ELSE IF ~req.valid
       THEN resp' = 400 /\ UNCHANGED <<withdrawals, payouts>>
       ELSE IF ~req.numeric \/ req.amount < 1
       THEN resp' = 500 /\ UNCHANGED <<withdrawals, payouts>>
       ELSE /\ resp' = 201
            /\ withdrawals' = Append(withdrawals,
                  [id |-> payouts.issued + 1, seller |-> req.user,
                   amount |-> req.amount, status |-> "pending",
                   paymentMethod |-> req.paymentMethod,
                   razorpayFundAccountId |-> req.funded])
            /\ payouts' = [payouts EXCEPT !.issued = @ + 1]
    /\ UNCHANGED <<products, orders, wallet, coupon, cart, gateway, returns, procs,
                   ledger, carrier, calls>>

\* Withdrawal.findById: the position of the document with that id, 0 if none
FindWithdrawal(id) ==
    IF \E k \in DOMAIN withdrawals : withdrawals[k].id = id
    THEN CHOOSE k \in DOMAIN withdrawals : withdrawals[k].id = id
    ELSE 0

\* the payout branch runs for these requested statuses
PayoutStatuses == {"processed", "paid"}

\* i is the id in the request; paid: createPayout did not throw (read only
\* when the provider is used, which is when the fund account is stored).
\* What the run adds to the history of payouts is PayoutsAfter's.
updateWithdrawalStatus(i, status, paid) ==
    LET k == FindWithdrawal(i)
    IN  /\ IF k = 0
           THEN resp' = 404 /\ UNCHANGED withdrawals
           ELSE IF /\ status \in PayoutStatuses
                   /\ withdrawals[k].razorpayFundAccountId
                   /\ ~paid
           THEN resp' = 500 /\ UNCHANGED withdrawals
           \* withdrawal.save() validates status against the enum
           ELSE IF status \notin WithdrawalStatuses
           THEN resp' = 500 /\ UNCHANGED withdrawals
           ELSE /\ resp' = 200
                /\ withdrawals' = [withdrawals EXCEPT ![k].status = status]
        /\ UNCHANGED <<products, orders, wallet, coupon, cart, gateway, returns, procs,
                       ledger, carrier, calls>>

\* the history after the same run: a payout is made when the payout branch
\* runs and either createPayout answers or, without the provider, the
\* admin's own payment is stored as processed
PayoutsAfter(i, status, paid) ==
    LET k == FindWithdrawal(i)
        viaProvider == withdrawals[k].razorpayFundAccountId
    IN  IF /\ k # 0
           /\ status \in PayoutStatuses
           /\ IF viaProvider THEN paid ELSE status \in WithdrawalStatuses
        THEN [payouts EXCEPT !.made = Append(@,
                 [withdrawal |-> i, seller |-> withdrawals[k].seller,
                  amount |-> withdrawals[k].amount,
                  createPayout |-> viaProvider,
                  stored |-> status \in WithdrawalStatuses])]
        ELSE payouts

\* Withdrawal.deleteOne({_id})
WithoutWithdrawal(id) == SelectSeq(withdrawals, LAMBDA w : w.id # id)

adminDeleteWithdrawal(i) ==
    /\ IF FindWithdrawal(i) = 0
       THEN resp' = 404 /\ UNCHANGED withdrawals
       ELSE resp' = 200 /\ withdrawals' = WithoutWithdrawal(i)
    /\ UNCHANGED <<products, orders, wallet, coupon, cart, gateway, returns, procs,
                   ledger, carrier, calls, payouts>>

\* Withdrawal.findOne({_id, seller}): only the seller's own document
deleteMyWithdrawal(user, i) ==
    /\ IF FindWithdrawal(i) = 0 \/ withdrawals[FindWithdrawal(i)].seller # user
       THEN resp' = 404 /\ UNCHANGED withdrawals
       ELSE resp' = 200 /\ withdrawals' = WithoutWithdrawal(i)
    /\ UNCHANGED <<products, orders, wallet, coupon, cart, gateway, returns, procs,
                   ledger, carrier, calls, payouts>>

(***************************************************************************)
(* Inputs the model draws from.                                            *)
(***************************************************************************)
CodeINT == <<"I","N","T">>

CodeCAN == <<"C","A","N">>

\* carrier codes as they arrive: table codes, codes the table does not
\* hold (one of them RTO-prefixed), lower case, padded, and none at all
CarrierCodes ==
    { <<>>, CodeSCB, CodeINT, CodeDEL, <<"d","e","l">>,
      <<" ","I","N","T"," ">>, CodeCAN, CodeRTO, CodeRTOREQ, CodeRTODEL,
      <<"X","Y","Z">>, <<"R","T","O","_","N","E","W">> }

Payloads ==
    [target : {1}, status : CarrierCodes,
     current_status : {<<>>, <<"O","F","D">>}, awb : {TRUE}]

\* the webhook events the life of an order is followed with
MainPayloads ==
    [target : {0, 1}, status : {CodeINT, CodeDEL, CodeRTO}, current_status : {<<>>},
     awb : {TRUE}]

Tracked(codes) ==
    [success : {TRUE}, found : {TRUE}, statusCode : codes, scans : {0, 1}]
    \cup [success : BOOLEAN, found : {FALSE}, statusCode : {<<>>}, scans : {0}]

ShipmentAnswers ==
    [success : {TRUE}, statusCode : {CodeSCB, CodePSH}, awb : BOOLEAN,
     courierCost : {8000}]
    \cup [success : {FALSE}, statusCode : {CodeSCB}, awb : {FALSE},
          courierCost : {0}]

UpdateStatuses == {"processing", "shipped", "delivered", "cancelled"}

OrderRefs == { <<"o","1">>, <<"o","2">> }

PaymentRefs == { <<"p","1">>, <<"p","2">> }

\* the catalogue the checkouts order from (prices in paise)
InitialProducts ==
    [p \in ProductIds |->
        [seller |-> IF p = "p3" THEN "s2" ELSE "s1",
         price |-> IF p = "p1" THEN 1050 ELSE IF p = "p2" THEN 100000 ELSE 2500,
         stock |-> IF p = "p2" THEN 1 ELSE 2,
         totalSold |-> 0]]

OneItem(p) == << [product |-> p, price |-> InitialProducts[p].price, quantity |-> 1] >>

PaidSignature == createHmac(RAZORPAY_KEY_SECRET, <<"o","1","|","p","1">>)

\* orders as createOrder leaves them for a COD checkout
CodOrders ==
    { NewOrder("u1", "s1", OneItem(p), "cod", 0, FALSE, "pending", "pending",
               <<>>, <<>>, NoSignature) : p \in {"p1", "p2"} }

\* a COD order of older code, stored without commission and sellerEarnings
LegacyOrders ==
    { [NewOrder("u1", "s1", OneItem("p1"), "cod", 0, FALSE, "pending", "pending",
                <<>>, <<>>, NoSignature)
          EXCEPT !.hasEarnings = FALSE, !.commission = 0, !.sellerEarnings = 0] }

\* orders as createOrderWithPayment leaves them; the request names the
\* payment method, and may name 'cod'
PaidOrders ==
    { NewOrder("u1", "s1", OneItem("p2"), m, 0, FALSE, "confirmed", "paid",
               <<"o","1">>, <<"p","1">>, PaidSignature) : m \in {"razorpay", "cod"} }

\* nothing in flight, nothing answered, no history
InitQuiet ==
    /\ products = InitialProducts
    /\ coupon = [isActive |-> TRUE, usedBy |-> {}, usageLimit |-> 2]
    /\ cart = [b \in Buyers |-> 1]
    /\ withdrawals = <<>>
    /\ payouts = NoPayouts
    /\ procs = <<>>
    /\ ledger = NoLedger
    /\ carrier = NoCarrier
    /\ calls = NoCalls
    /\ resp = 0

InitRest ==
    /\ InitQuiet
    /\ wallet = [u \in Users |-> 0]
    /\ returns = <<>>

AllCaptured == [q \in PaymentRefs |-> "captured"]

(***************************************************************************)
(* Spec: the life of one placed order, every handler running to its end    *)
(* before the next starts.                                                 *)
(***************************************************************************)
Init ==
    /\ InitRest
    /\ gateway = AllCaptured
    /\ orders \in { <<o>> : o \in CodOrders \cup LegacyOrders \cup PaidOrders }

UpdateStep ==
    /\ \E status \in UpdateStatuses : updateOrderStatus(1, status)
    /\ UNCHANGED calls

CancelStep == \E rtoCreated \in BOOLEAN : cancelOrder(1, rtoCreated)

ApproveCancellationStep == adminApproveCancellation(1)

RefundStep == \E refunded \in BOOLEAN : adminRefundOrder(1, refunded)

WebhookStep == \E payload \in MainPayloads : webhook(payload)

TrackStep == \E track \in Tracked({CodeINT, CodeDEL}) : trackOrder(1, track)

ShipmentStep == \E created \in ShipmentAnswers : createShipmentForOrder(1, created)

Next ==
    \/ UpdateStep
    \/ CancelStep
    \/ ApproveCancellationStep
    \/ RefundStep
    \/ WebhookStep
    \/ TrackStep
    \/ ShipmentStep

Spec == Init /\ [][Next]_vars

(***************************************************************************)
(* SpecCarrier: carrier events of every kind applied to one order, with    *)
(* the seller's and the buyer's own operations in between.                 *)
(***************************************************************************)
CarrierWebhookStep == \E payload \in Payloads : webhook(payload)

CarrierTrackStep ==
    \E track \in Tracked({CodeINT, CodeDEL, <<"d","e","l">>, CodeRTO}) : trackOrder(1, track)

CancelShipmentStep == \E cancelled \in BOOLEAN : cancelShipmentForOrder(1, cancelled)

NdrStep == \E action \in {"RE_ATTEMPT", "RETURN"}, done \in BOOLEAN :
               ndrAction(1, action, done)

InitCarrier ==
    /\ InitRest
    /\ gateway = AllCaptured
    /\ orders \in { <<o>> : o \in CodOrders }

NextCarrier ==
    \/ CarrierWebhookStep
    \/ CarrierTrackStep
    \/ ShipmentStep
    \/ CancelShipmentStep
    \/ NdrStep

SpecCarrier == InitCarrier /\ [][NextCarrier]_vars

(***************************************************************************)
(* SpecMapper: the status mapper as its two callers use it, on one order:  *)
(* webhook events and tracking polls carrying codes of every kind, among   *)
(* them codes the table does not hold, RTO-prefixed ones in either letter  *)
(* case, and a tracking answer without any status code.                    *)
(***************************************************************************)
\* RTO-prefixed codes the table does not hold
UnlistedRtoCodes ==
    { <<"R","T","O","_","N","E","W">>, <<"r","t","o","_","n","e","w">> }

MapperCodes ==
    CarrierCodes \cup UnlistedRtoCodes \cup { <<"r","t","o">> }

MapperPayloads ==
    [target : {1}, status : MapperCodes, current_status : {<<>>}, awb : {TRUE}]

MapperWebhookStep == \E payload \in MapperPayloads : webhook(payload)

MapperTrackStep == \E track \in Tracked(MapperCodes) : trackOrder(1, track)

NextMapper ==
    \/ MapperWebhookStep
    \/ MapperTrackStep
    \/ ShipmentStep

SpecMapper == InitCarrier /\ [][NextMapper]_vars

(***************************************************************************)
(* SpecUpdates: updateOrderStatus calls on one order, one after another,   *)
(* with the history of the 'delivered' calls.                              *)
(***************************************************************************)
InitUpdates ==
    /\ InitRest
    /\ gateway = AllCaptured
    /\ orders \in { <<o>> : o \in CodOrders \cup LegacyOrders \cup PaidOrders }

UpdateCounted ==
    \E status \in UpdateStatuses :
        /\ updateOrderStatus(1, status)
        /\ calls' = Counted(calls, status, ~UpdateRejected(orders[1]))

NextUpdates == UpdateCounted

SpecUpdates == InitUpdates /\ [][NextUpdates]_vars

(***************************************************************************)
(* SpecRace: updateOrderStatus requests on one order taken await by await. *)
(* A request is [status, doc, pc]: doc is the document Order.findById      *)
(* returned with the handler's assignments applied, pc is where the        *)
(* request stands: "loaded" (before the wallet $inc), "saving" (before     *)
(* order.save()), "done", "rejected" or "failed".                          *)
(***************************************************************************)
\* Order.findById, the guard and the assignments that follow it
LoadUpdate(status) ==
    /\ Len(procs) < MaxRequests
    /\ LET order == orders[1]
       IN  IF UpdateRejected(order)
           THEN /\ procs' = Append(procs, [status |-> status, doc |-> order,
                                           loaded |-> order, pc |-> "rejected"])
                /\ resp' = 400
           ELSE /\ procs' = Append(procs, [status |-> status,
                                           doc |-> UpdatedOrder(order, status),
                                           loaded |-> order, pc |-> "loaded"])
                /\ UNCHANGED resp
    /\ UNCHANGED <<catalog, orders, wallet, ledger, carrier, calls>>

\* Seller.findById and User.findByIdAndUpdate({$inc: {walletBalance}})
CreditUpdate(k) ==
    /\ procs[k].pc = "loaded"
    /\ LET amount == CreditAmount(procs[k].loaded, procs[k].status)
       IN  IF amount # 0
           THEN /\ IncWallet(SellerUser(procs[k].doc.seller), amount)
                /\ ledger' = Booked(ledger, "credit", amount)
           ELSE UNCHANGED <<wallet, ledger>>
    /\ procs' = [procs EXCEPT ![k].pc = "saving"]
    /\ UNCHANGED <<catalog, orders, carrier, calls, resp>>

\* the paths updateOrderStatus may have modified
UpdatePaths == {"orderStatus", "paymentStatus", "hasEarnings", "commission",
                "sellerEarnings"}

\* order.save(): the paths whose value the request changed are written
\* over the stored document, the others are left as stored
Saved(stored, loaded, doc) ==
    [f \in DOMAIN stored |->
        IF f \in UpdatePaths /\ doc[f] # loaded[f] THEN doc[f] ELSE stored[f]]

SaveUpdate(k) ==
    /\ procs[k].pc = "saving"
    /\ orders' = [orders EXCEPT ![1] = Saved(@, procs[k].loaded, procs[k].doc)]
    /\ procs' = [procs EXCEPT ![k].pc = "done"]
    /\ resp' = 200
    /\ UNCHANGED <<catalog, wallet, ledger, carrier, calls>>

\* order.save() rejects: the handler answers 500, the $inc stays
SaveUpdateFails(k) ==
    /\ procs[k].pc = "saving"
    /\ procs' = [procs EXCEPT ![k].pc = "failed"]
    /\ resp' = 500
    /\ UNCHANGED <<catalog, orders, wallet, ledger, carrier, calls>>

InitRace ==
    /\ InitRest
    /\ gateway = AllCaptured
    /\ orders \in { <<o>> : o \in CodOrders \cup LegacyOrders }

NextRace ==
    \/ \E status \in UpdateStatuses : LoadUpdate(status)
    \/ \E k \in DOMAIN procs : CreditUpdate(k)
    \/ \E k \in DOMAIN procs : SaveUpdate(k)
    \/ \E k \in DOMAIN procs : SaveUpdateFails(k)

SpecRace == InitRace /\ [][NextRace]_vars

(***************************************************************************)
(* SpecReturn: return requests on one delivered order, every handler       *)
(* running to its end before the next starts.                              *)
(***************************************************************************)
\* forward courier costs in paise: none stored, Rs 80, Rs 151
ForwardCharges == {0, 8000, 15100}

\* freight the carrier reports for a reverse pickup: none, Rs 150, Rs 99.50
Freights == {0, 15000, 9950}

AdminBalances == {0, 10000}

PickupAnswers ==
    [created : {TRUE}, awb : BOOLEAN, freight : Freights]
    \cup [created : {FALSE}, awb : {FALSE}, freight : {0}]

VendorFaultCategories == {"wrong_item", "defective", "not_as_described"}

ReturnBodies ==
    [user : {"u1"}, orderId : {1}, reasonCategory : {"size_issue", "other"},
     reasonText : ReasonTexts, refundDetails : {TRUE}, withinDays : {TRUE}]
    \cup [user : {"u1"}, orderId : {1}, reasonCategory : VendorFaultCategories,
          reasonText : {<<>>}, refundDetails : {TRUE}, withinDays : {TRUE}]
    \cup [user : {"u1", "u2"}, orderId : {0, 1, 2}, reasonCategory : {"", "other"},
          reasonText : {<<>>}, refundDetails : BOOLEAN, withinDays : BOOLEAN]

\* an order as createShipmentForOrder and the webhook's DEL leave it
Delivered(order, courierCost) ==
    [order EXCEPT !.orderStatus = "delivered",
                  !.shippingStatus = "delivered",
                  !.deliveredAt = 1,
                  !.shipment = [NoShipment EXCEPT !.shipmentId = TRUE,
                                                  !.awb = TRUE,
                                                  !.status = CodeDEL,
                                                  !.events = 1,
                                                  !.courierCost = courierCost]]

DeliveredOrders ==
    { Delivered(o, c) :
        o \in { p \in CodOrders \cup PaidOrders : p.itemsPrice = 100000 },
        c \in ForwardCharges }

InitReturn ==
    /\ InitQuiet
    /\ wallet \in { [u \in Users |-> IF u = "admin" THEN b ELSE 0] : b \in AdminBalances }
    /\ gateway = AllCaptured
    /\ orders \in { <<o>> : o \in DeliveredOrders }
    /\ returns = <<>>

CreateReturnStep ==
    /\ Len(returns) < MaxReturns
    /\ \E body \in ReturnBodies : createReturnRequest(body)

ApproveReturnStep ==
    \E i \in DOMAIN returns, pickup \in PickupAnswers : approveReturnRequest(i, pickup)

RejectReturnStep == \E i \in DOMAIN returns : rejectReturnRequest(i)

\* the buyer cancels, or the delivery comes back, before the approval
ReturnCancelStep == returns # <<>> /\ cancelOrder(1, FALSE)

NextReturn ==
    \/ CreateReturnStep
    \/ ApproveReturnStep
    \/ RejectReturnStep
    \/ ReturnCancelStep

SpecReturn == InitReturn /\ [][NextReturn]_vars

(***************************************************************************)
(* SpecApprovals: approveReturnRequest requests on one return request      *)
(* taken await by await.  A request is [i, pc, doc, base, order, created]: *)
(* doc is the ReturnRequest in memory, base is doc as last read or saved   *)
(* (a save writes the paths on which doc differs from base), order is the  *)
(* Order read by Order.findById, pc names the await the request stands     *)
(* before.                                                                 *)
(***************************************************************************)
\* doc.save(): the modified paths are written over the stored document;
\* whole: chargeAllocation was assigned as one object
SavedReturn(stored, base, doc, whole) ==
    [f \in DOMAIN stored |->
        IF f = "chargeAllocation"
        THEN IF whole THEN doc[f]
             ELSE [g \in DOMAIN stored[f] |->
                      IF doc[f][g] # base[f][g] THEN doc[f][g] ELSE stored[f][g]]
        ELSE IF doc[f] # base[f] THEN doc[f] ELSE stored[f]]

\* ReturnRequest.findById and the guard on doc.status
LoadApproval(i) ==
    /\ i \in DOMAIN returns
    /\ Len(procs) < MaxRequests
    /\ LET rejected == returns[i].status # "requested"
       IN  /\ procs' = Append(procs,
                 [i |-> i, pc |-> IF rejected THEN "rejected" ELSE "findOrder",
                  doc |-> returns[i], base |-> returns[i], order |-> orders[1],
                  created |-> FALSE])
           /\ resp' = IF rejected THEN 400 ELSE resp
    /\ UNCHANGED <<products, orders, wallet, coupon, cart, gateway, withdrawals, payouts, returns,
                   ledger, carrier, calls>>

\* Order.findById(doc.order) and the allocation computed from it
FindOrder(k) ==
    /\ procs[k].pc = "findOrder"
    /\ LET order == orders[procs[k].doc.order]
       IN  procs' = [procs EXCEPT ![k].order = order,
                                  ![k].doc = Allocated(@, order),
                                  ![k].pc = "saveAllocation"]
    /\ UNCHANGED <<products, orders, wallet, coupon, cart, gateway, withdrawals, payouts, returns,
                   ledger, carrier, calls, resp>>

\* the first doc.save()
SaveAllocation(k) ==
    /\ procs[k].pc = "saveAllocation"
    /\ LET p == procs[k]
       IN  /\ returns' = [returns EXCEPT ![p.i] = SavedReturn(@, p.base, p.doc, TRUE)]
           /\ procs' = [procs EXCEPT
                 ![k].base = p.doc,
                 ![k].pc = IF ~Deducts(p.doc) THEN "pickup"
                           ELSE IF p.doc.chargeAllocation.vendorCharge > 0
                           THEN "vendorInc"
                           ELSE "adminRead"]
    /\ UNCHANGED <<products, orders, wallet, coupon, cart, gateway, withdrawals, payouts, ledger,
                   carrier, calls, resp>>

\* User.findByIdAndUpdate(vendor, {$inc: {walletBalance: -vendorCharge}})
VendorInc(k) ==
    /\ procs[k].pc = "vendorInc"
    /\ LET p == procs[k]
           vendorCharge == p.doc.chargeAllocation.vendorCharge
       IN  /\ IncWallet(SellerUser(p.order.seller), 0 - vendorCharge)
           /\ ledger' = Booked(ledger, "vendorCharge", vendorCharge)
           /\ procs' = [procs EXCEPT
                 ![k].pc = IF p.doc.chargeAllocation.adminCharge > 0
                           THEN "adminRead" ELSE "saveApplied"]
    /\ UNCHANGED <<products, orders, coupon, cart, gateway, withdrawals, payouts, returns, carrier,
                   calls, resp>>

\* User.findOne({role: 'admin'}) and the test of its balance
AdminRead(k) ==
    /\ procs[k].pc = "adminRead"
    /\ procs' = [procs EXCEPT
          ![k].pc = IF wallet["admin"] >= procs[k].doc.chargeAllocation.adminCharge
                    THEN "adminInc" ELSE "saveApplied"]
    /\ UNCHANGED <<products, orders, wallet, coupon, cart, gateway, withdrawals, payouts, returns,
                   ledger, carrier, calls, resp>>

\* User.findByIdAndUpdate(admin, {$inc: {walletBalance: -adminCharge}})
AdminInc(k) ==
    /\ procs[k].pc = "adminInc"
    /\ LET adminCharge == procs[k].doc.chargeAllocation.adminCharge
       IN  /\ IncWallet("admin", 0 - adminCharge)
           /\ ledger' = Booked(ledger, "adminCharge", adminCharge)
    /\ procs' = [procs EXCEPT ![k].pc = "saveApplied"]
    /\ UNCHANGED <<products, orders, coupon, cart, gateway, withdrawals, payouts, returns, carrier,
                   calls, resp>>

\* allocationApplied = true and the second doc.save()
SaveApplied(k) ==
    /\ procs[k].pc = "saveApplied"
    /\ LET p == procs[k]
           doc == [p.doc EXCEPT !.chargeAllocation.allocationApplied = TRUE]
       IN  /\ returns' = [returns EXCEPT ![p.i] = SavedReturn(@, p.base, doc, FALSE)]
           /\ procs' = [procs EXCEPT ![k].doc = doc, ![k].base = doc,
                                     ![k].pc = "pickup"]
    /\ UNCHANGED <<products, orders, wallet, coupon, cart, gateway, withdrawals, payouts, ledger,
                   carrier, calls, resp>>

\* rapidShyp.createReversePickup and what the handler derives from its answer
CreatePickup(k, pickup) ==
    /\ procs[k].pc = "pickup"
    /\ IF pickup.created
       THEN /\ ledger' = Booked(ledger, "reversePickup", 0)
            /\ procs' = [procs EXCEPT ![k].doc = PickedUp(@, pickup),
                                      ![k].created = TRUE,
                                      ![k].pc = "savePickup"]
       ELSE /\ procs' = [procs EXCEPT ![k].pc = "saveOrder"]
            /\ UNCHANGED ledger
    /\ UNCHANGED <<products, orders, wallet, coupon, cart, gateway, withdrawals, payouts, returns,
                   carrier, calls, resp>>

\* the doc.save() after a created reverse pickup
SavePickup(k) ==
    /\ procs[k].pc = "savePickup"
    /\ LET p == procs[k]
       IN  /\ returns' = [returns EXCEPT ![p.i] = SavedReturn(@, p.base, p.doc, FALSE)]
           /\ procs' = [procs EXCEPT ![k].base = p.doc, ![k].pc = "saveOrder"]
    /\ UNCHANGED <<products, orders, wallet, coupon, cart, gateway, withdrawals, payouts, ledger,
                   carrier, calls, resp>>

\* order.save() and the answer
SaveReturningOrder(k) ==
    /\ procs[k].pc = "saveOrder"
    /\ orders' = [orders EXCEPT ![procs[k].doc.order] =
          [@ EXCEPT !.shipment.isReturning = TRUE,
                    !.shipment.events = IF procs[k].created THEN @ + 1 ELSE @]]
    /\ procs' = [procs EXCEPT ![k].pc = "done"]
    /\ resp' = 200
    /\ UNCHANGED <<products, wallet, coupon, cart, gateway, withdrawals, payouts, returns, ledger,
                   carrier, calls>>

\* freight answers of the concurrent runs: none, Rs 150, Rs 80.40
RaceFreights == {0, 15000, 8040}

RacePickupAnswers ==
    [created : {TRUE}, awb : {TRUE}, freight : RaceFreights]
    \cup [created : {FALSE}, awb : {FALSE}, freight : {0}]

\* one request, of a vendor-fault category or of one the two sides share,
\* on a COD order delivered for Rs 80; the admin wallet holds Rs 100
InitApprovals ==
    /\ InitQuiet
    /\ gateway = AllCaptured
    /\ wallet = [u \in Users |-> IF u = "admin" THEN 10000 ELSE 0]
    /\ orders \in { <<o>> : o \in { d \in DeliveredOrders :
                                      /\ d.paymentMethod = "cod"
                                      /\ d.razorpayPaymentId = <<>>
                                      /\ d.shipment.courierCost = 8000 } }
    /\ returns \in { <<NewReturn("u1", 1, c, <<"m","y"," ","m","i","s","t","a","k","e">>)>> :
                        c \in {"wrong_item", "size_issue"} }

NextApprovals ==
    \/ LoadApproval(1)
    \/ \E k \in DOMAIN procs : FindOrder(k)
    \/ \E k \in DOMAIN procs : SaveAllocation(k)
    \/ \E k \in DOMAIN procs : VendorInc(k)
    \/ \E k \in DOMAIN procs : AdminRead(k)
    \/ \E k \in DOMAIN procs : AdminInc(k)
    \/ \E k \in DOMAIN procs : SaveApplied(k)
    \/ \E k \in DOMAIN procs, pickup \in RacePickupAnswers : CreatePickup(k, pickup)
    \/ \E k \in DOMAIN procs : SavePickup(k)
    \/ \E k \in DOMAIN procs : SaveReturningOrder(k)

SpecApprovals == InitApprovals /\ [][NextApprovals]_vars

(***************************************************************************)
(* SpecAllocation: the approval of one return request of any category and  *)
(* reason text, taken await by await, on an order delivered for any of a   *)
(* few forward charges; the order may be cancelled before the approval     *)
(* reads it.                                                               *)
(***************************************************************************)
\* forward courier costs in paise: none stored, Rs 1, Rs 80, Rs 101
AllocationCharges == {0, 100, 8000, 10100}

ReasonCategories ==
    VendorFaultCategories \cup {"size_issue", "other"}

InitAllocation ==
    /\ InitQuiet
    /\ gateway = AllCaptured
    /\ wallet = [u \in Users |-> IF u = "admin" THEN 10000 ELSE 0]
    /\ orders \in { <<Delivered(o, c)>> :
                      o \in { q \in CodOrders \cup PaidOrders : q.itemsPrice = 100000 },
                      c \in AllocationCharges }
    /\ returns \in { <<NewReturn("u1", 1, c, t)>> :
                        c \in ReasonCategories, t \in ReasonTexts }

\* one approval, started when none is in flight
AllocationLoadStep == procs = <<>> /\ LoadApproval(1)

NextAllocation ==
    \/ AllocationLoadStep
    \/ ReturnCancelStep
    \/ \E k \in DOMAIN procs : FindOrder(k)
    \/ \E k \in DOMAIN procs : SaveAllocation(k)
    \/ \E k \in DOMAIN procs : VendorInc(k)
    \/ \E k \in DOMAIN procs : AdminRead(k)
    \/ \E k \in DOMAIN procs : AdminInc(k)
    \/ \E k \in DOMAIN procs : SaveApplied(k)
    \/ \E k \in DOMAIN procs, pickup \in RacePickupAnswers : CreatePickup(k, pickup)
    \/ \E k \in DOMAIN procs : SavePickup(k)
    \/ \E k \in DOMAIN procs : SaveReturningOrder(k)

SpecAllocation == InitAllocation /\ [][NextAllocation]_vars

(***************************************************************************)
(* SpecWallet: a delivery, a return approval and a refund that concern     *)
(* three orders of one seller, each request taken await by await.  A       *)
(* refund request is [i, pc, loaded]: the order Order.findById returned    *)
(* and the await it stands before.                                         *)
(***************************************************************************)
RefundStages == {"refundPayment", "refundInc", "refundSave", "refunded",
                 "refundFailed", "refundRejected"}

\* Order.findById and the guards of adminRefundOrder
LoadRefund(i) ==
    /\ i \in DOMAIN orders
    /\ Cardinality({ k \in DOMAIN procs : procs[k].pc \in RefundStages }) < MaxRefunds
    /\ LET rejected == RefundRejected(orders[i])
       IN  /\ procs' = Append(procs,
                 [i |-> i, loaded |-> orders[i],
                  pc |-> IF rejected THEN "refundRejected" ELSE "refundPayment"])
           /\ resp' = IF rejected THEN 400 ELSE resp
    /\ UNCHANGED <<catalog, orders, wallet, ledger, carrier, calls>>

\* refundPayment(paymentId, refundAmount); refunded: it returned
PayRefund(k, refunded) ==
    /\ procs[k].pc = "refundPayment"
    /\ IF refunded
       THEN /\ ledger' = Booked(ledger, "refund", RefundAmount(procs[k].loaded))
            /\ procs' = [procs EXCEPT
                  ![k].pc = IF RefundDebit(procs[k].loaded) # 0
                            THEN "refundInc" ELSE "refundSave"]
            /\ UNCHANGED resp
       ELSE /\ procs' = [procs EXCEPT ![k].pc = "refundFailed"]
            /\ resp' = 500
            /\ UNCHANGED ledger
    /\ UNCHANGED <<catalog, orders, wallet, carrier, calls>>

\* Seller.findById and User.findByIdAndUpdate({$inc: {walletBalance}})
RefundInc(k) ==
    /\ procs[k].pc = "refundInc"
    /\ LET debit == RefundDebit(procs[k].loaded)
       IN  /\ IncWallet(SellerUser(procs[k].loaded.seller), debit)
           /\ ledger' = Booked(ledger, "refundDebit", 0 - debit)
    /\ procs' = [procs EXCEPT ![k].pc = "refundSave"]
    /\ UNCHANGED <<catalog, orders, carrier, calls, resp>>

\* order.save(): paymentStatus and refundStatus were assigned
SaveRefund(k) ==
    /\ procs[k].pc = "refundSave"
    /\ orders' = [orders EXCEPT ![procs[k].i] =
          [@ EXCEPT !.paymentStatus = "refunded", !.refundStatus = "refunded"]]
    /\ procs' = [procs EXCEPT ![k].pc = "refunded"]
    /\ resp' = 200
    /\ UNCHANGED <<catalog, wallet, ledger, carrier, calls>>

WalletAtStart == [u \in Users |-> IF u = "admin" THEN 10000 ELSE 50000]

\* an order paid online whose cancellation the admin approved
RefundPending(order) ==
    [order EXCEPT !.orderStatus = "cancelled", !.refundStatus = "pending"]

\* order 1 awaits delivery, order 2 was delivered for Rs 80 and has a return
\* request, order 3 awaits its refund
InitWallet ==
    /\ InitQuiet
    /\ gateway = AllCaptured
    /\ wallet = WalletAtStart
    /\ orders \in { <<a, Delivered(b, 8000), RefundPending(c)>> :
                      a \in { o \in CodOrders : o.itemsPrice = 1050 },
                      b \in { o \in CodOrders : o.itemsPrice = 100000 },
                      c \in { o \in PaidOrders : o.paymentMethod = "razorpay" } }
    /\ returns \in { <<NewReturn("u1", 2, c, <<"m","y"," ","m","i","s","t","a","k","e">>)>> :
                        c \in {"wrong_item", "size_issue"} }

NextWallet ==
    \/ LoadUpdate("delivered")
    \/ \E k \in DOMAIN procs : CreditUpdate(k)
    \/ \E k \in DOMAIN procs : SaveUpdate(k)
    \/ LoadApproval(1)
    \/ \E k \in DOMAIN procs : FindOrder(k)
    \/ \E k \in DOMAIN procs : SaveAllocation(k)
    \/ \E k \in DOMAIN procs : VendorInc(k)
    \/ \E k \in DOMAIN procs : AdminRead(k)
    \/ \E k \in DOMAIN procs : AdminInc(k)
    \/ \E k \in DOMAIN procs : SaveApplied(k)
    \/ \E k \in DOMAIN procs :
          CreatePickup(k, [created |-> FALSE, awb |-> FALSE, freight |-> 0])
    \/ \E k \in DOMAIN procs : SaveReturningOrder(k)
    \/ LoadRefund(3)
    \/ \E k \in DOMAIN procs, refunded \in BOOLEAN : PayRefund(k, refunded)
    \/ \E k \in DOMAIN procs : RefundInc(k)
    \/ \E k \in DOMAIN procs : SaveRefund(k)

SpecWallet == InitWallet /\ [][NextWallet]_vars

(***************************************************************************)
(* SpecRequests: return requests of one buyer on two delivered orders,     *)
(* asked for again and again while the admin decides them, every handler   *)
(* running to its end before the next starts.                              *)
(***************************************************************************)
\* well-formed requests inside the return window; u2 is not the buyer
RequestBodies ==
    [user : {"u1", "u2"}, orderId : {1, 2}, reasonCategory : {"wrong_item", "other"},
     reasonText : {<<>>}, refundDetails : {TRUE}, withinDays : {TRUE}]

Rejected == { i \in DOMAIN returns : returns[i].status = "rejected" }

InitRequests ==
    /\ InitQuiet
    /\ gateway = AllCaptured
    /\ wallet = WalletAtStart
    /\ orders \in { <<Delivered(a, 8000), Delivered(b, 8000)>> :
                      a \in { o \in CodOrders : o.itemsPrice = 100000 },
                      b \in { o \in PaidOrders : o.paymentMethod = "razorpay" } }
    /\ returns = <<>>

\* requests are followed until more than MaxReturns of them were rejected
RequestAgainStep ==
    /\ Cardinality(Rejected) <= MaxReturns
    /\ \E body \in RequestBodies : createReturnRequest(body)

\* the admin decides a request that awaits a decision
DecideApproveStep ==
    \E i \in DOMAIN returns :
        /\ returns[i].status = "requested"
        /\ approveReturnRequest(i, [created |-> TRUE, awb |-> TRUE, freight |-> 0])

DecideRejectStep ==
    \E i \in DOMAIN returns :
        /\ returns[i].status = "requested"
        /\ rejectReturnRequest(i)

NextRequests ==
    \/ RequestAgainStep
    \/ DecideApproveStep
    \/ DecideRejectStep

SpecRequests == InitRequests /\ [][NextRequests]_vars

(***************************************************************************)
(* SpecRequestRace: createReturnRequest requests taken await by await.  A  *)
(* request is [body, pc]; pc names the await it stands before:             *)
(* "findOne" (ReturnRequest.findOne), "create" (ReturnRequest.create),     *)
(* or how it ended.                                                        *)
(***************************************************************************)
\* the checks on the body, Order.findById and the checks on the order
FindReturnOrder(body) ==
    /\ Len(procs) < MaxRequests
    /\ LET code == IF body.orderId = 0 \/ body.reasonCategory = "" \/ ~body.refundDetails
                   THEN 400
                   ELSE IF body.orderId \notin DOMAIN orders THEN 404
                   ELSE IF orders[body.orderId].user # body.user THEN 403
                   ELSE IF orders[body.orderId].orderStatus # "delivered"
                           \/ ~body.withinDays THEN 400
                   ELSE 0
       IN  /\ procs' = Append(procs, [body |-> body,
                                      pc |-> IF code = 0 THEN "findOne" ELSE "refused"])
           /\ resp' = IF code = 0 THEN resp ELSE code
    /\ UNCHANGED <<catalog, orders, wallet, ledger, carrier, calls>>

\* ReturnRequest.findOne({user, order, status: {$in: [...]}})
FindExisting(k) ==
    /\ procs[k].pc = "findOne"
    /\ LET body == procs[k].body
           existing == \E i \in DOMAIN returns :
                          /\ returns[i].user = body.user
                          /\ returns[i].order = body.orderId
                          /\ returns[i].status \in OpenStatuses
       IN  /\ procs' = [procs EXCEPT ![k].pc = IF existing THEN "refused" ELSE "create"]
           /\ resp' = IF existing THEN 400 ELSE resp
    /\ UNCHANGED <<catalog, orders, wallet, ledger, carrier, calls>>

\* ReturnRequest.create({...}); the index on {user, order} is not unique
CreateReturn(k) ==
    /\ procs[k].pc = "create"
    /\ LET body == procs[k].body
       IN  returns' = Append(returns, NewReturn(body.user, body.orderId,
                                body.reasonCategory, body.reasonText))
    /\ procs' = [procs EXCEPT ![k].pc = "created"]
    /\ resp' = 201
    /\ UNCHANGED <<products, orders, wallet, coupon, cart, gateway, withdrawals, payouts, ledger,
                   carrier, calls>>

NextRequestRace ==
    \/ \E body \in RequestBodies : FindReturnOrder(body)
    \/ \E k \in DOMAIN procs : FindExisting(k)
    \/ \E k \in DOMAIN procs : CreateReturn(k)
    \/ DecideRejectStep

SpecRequestRace == InitRequests /\ [][NextRequestRace]_vars

(***************************************************************************)
(* SpecWithdrawals: withdrawal requests of a seller with an order paid     *)
(* online and an order delivered against cash, and the admin's status      *)
(* updates.                                                                *)
(***************************************************************************)
\* nothing; half of the earnings; all that is there with and without the
\* fraction of a legacy order; a paisa more; more than everything
WithdrawalAmounts == {0, 50000, 93976, 93977, 200000}

\* well-formed requests of every amount; requests for half of the earnings
\* whose amount is no number, whose method is unknown, whose payment
\* details do not validate, or whose seller has earned nothing
WithdrawalRequests ==
    [user : {"vendor1"}, amount : WithdrawalAmounts, numeric : {TRUE},
     paymentMethod : {"razorpay_upi"}, valid : {TRUE}, funded : {TRUE}]
    \cup [user : {"vendor1", "vendor2"}, amount : {50000}, numeric : BOOLEAN,
          paymentMethod : {"razorpay_bank", "bank"}, valid : BOOLEAN,
          funded : {FALSE}]

RequestedStatuses == WithdrawalStatuses \cup {"processing", "paid"}

InitWithdrawals ==
    /\ InitQuiet
    /\ gateway = AllCaptured
    /\ wallet = WalletAtStart
    /\ returns = <<>>
    /\ orders \in { <<a, Delivered(b, 8000)>> :
                      a \in { o \in PaidOrders : o.paymentMethod = "razorpay" },
                      b \in { o \in CodOrders \cup LegacyOrders : o.itemsPrice = 1050 } }

WithdrawalRequestStep ==
    /\ Len(withdrawals) < MaxWithdrawals
    /\ \E req \in WithdrawalRequests : createWithdrawalRequest(req)

WithdrawalStatusStep ==
    /\ \E i \in 1..MaxWithdrawals, status \in RequestedStatuses, paid \in BOOLEAN :
          updateWithdrawalStatus(i, status, paid)
    /\ UNCHANGED payouts

NextWithdrawals ==
    \/ WithdrawalRequestStep
    \/ WithdrawalStatusStep

SpecWithdrawals == InitWithdrawals /\ [][NextWithdrawals]_vars

(***************************************************************************)
(* SpecPayouts: the seller's withdrawal requests and deletions and the     *)
(* admin's status updates and deletions, with the history of the payouts   *)
(* made, through the provider when the request stored a fund account and   *)
(* by hand when it did not.                                                *)
(***************************************************************************)
PayoutRequests ==
    [user : {"vendor1"}, amount : {50000, 93976}, numeric : {TRUE},
     paymentMethod : {"razorpay_upi"}, valid : {TRUE}, funded : BOOLEAN]

PayoutRequestStep ==
    /\ payouts.issued < MaxWithdrawals
    /\ \E req \in PayoutRequests : createWithdrawalRequest(req)

PayoutStatusStep ==
    \E i \in 1..MaxWithdrawals, status \in {"approved", "processed", "paid"}, paid \in BOOLEAN :
        /\ updateWithdrawalStatus(i, status, paid)
        /\ payouts' = PayoutsAfter(i, status, paid)
        /\ Len(payouts'.made) <= MaxPayouts

DeleteMineStep ==
    \E user \in {"vendor1", "vendor2"}, i \in 1..MaxWithdrawals :
        deleteMyWithdrawal(user, i)

AdminDeleteStep == \E i \in 1..MaxWithdrawals : adminDeleteWithdrawal(i)

NextPayouts ==
    \/ PayoutRequestStep
    \/ PayoutStatusStep
    \/ DeleteMineStep
    \/ AdminDeleteStep

SpecPayouts == InitWithdrawals /\ [][NextPayouts]_vars

(***************************************************************************)
(* SpecCheckout: checkouts, paid online or on delivery, against a gateway   *)
(* that holds the payments in any state.                                   *)
(***************************************************************************)
Item(p, quantity) ==
    [product |-> p, seller |-> InitialProducts[p].seller, quantity |-> quantity]

\* one item; more than the stock of p2; two sellers; an item without product
ItemLists ==
    { <<Item("p1", 1)>>, <<Item("p2", 2)>>, <<Item("p1", 1), Item("p3", 1)>>,
      <<[product |-> "", seller |-> "s1", quantity |-> 1]>> }

PresentedSignatures ==
    { createHmac(RAZORPAY_KEY_SECRET, <<"o","1","|","p","1">>),
      createHmac(RAZORPAY_KEY_SECRET, <<"o","1","|","p","2">>),
      createHmac("guessed-secret", <<"o","1","|","p","1">>),
      NoSignature }

PaymentRequests ==
    [user : {"u1"}, items : ItemLists, paymentMethod : {""}, coupon : {TRUE},
     discount : {0}, oid : OrderRefs, pid : PaymentRefs, sig : PresentedSignatures]
    \cup [user : {"u2"}, items : {<<Item("p1", 1)>>}, paymentMethod : {"cod"},
          coupon : {FALSE}, discount : {0}, oid : {<<"o","1">>},
          pid : PaymentRefs, sig : PresentedSignatures]

\* cash-on-delivery checkouts of complete item lists
CodRequests ==
    [user : {"u2"}, items : {<<Item("p1", 1)>>, <<Item("p3", 1), Item("p1", 1)>>},
     paymentMethod : {"cod"}, coupon : BOOLEAN, discount : {0},
     oid : {<<>>}, pid : {<<>>}, sig : {NoSignature}]

InitCheckout ==
    /\ InitRest
    /\ gateway \in [PaymentRefs -> PaymentStates]
    /\ orders = <<>>

PaymentStep ==
    /\ Len(orders) < MaxOrders
    /\ \E req \in PaymentRequests : createOrderWithPayment(req)

CodStep ==
    /\ Len(orders) < MaxOrders
    /\ \E req \in CodRequests : createOrder(req)

NextCheckout ==
    \/ PaymentStep
    \/ CodStep

SpecCheckout == InitCheckout /\ [][NextCheckout]_vars

(***************************************************************************)
(* SpecStock: createOrderWithPayment requests for one item each, taken     *)
(* await by await.  A request in flight is [req, pc, product]; pc names    *)
(* the await it stands before: "findById" (Product.findById), "save"       *)
(* (product.save), "order" (order.save), "finish" (coupon and cart), or    *)
(* how it ended; product is the document the request holds in memory.      *)
(***************************************************************************)
StockStages == {"findById", "save", "order", "finish", "created", "refused", "thrown"}

StockRequests ==
    [user : Buyers, items : {<<Item("p2", 1)>>, <<Item("p1", 1)>>, <<Item("p1", 2)>>},
     paymentMethod : {""}, coupon : {FALSE}, discount : {0}, oid : {<<"o","1">>},
     pid : PaymentRefs, sig : {PaidSignature}]

\* verifyPayment and getPaymentDetails, up to the first Product.findById
BeginCheckout(req) ==
    /\ Len(procs) < MaxRequests
    /\ LET code == IF ~verifyPayment(req.oid, req.pid, req.sig) THEN 400
                   ELSE IF gateway[req.pid] = "unreachable" THEN 500
                   ELSE IF gateway[req.pid] # "captured" THEN 400
                   ELSE 0
       IN  /\ procs' = Append(procs,
                 [req |-> req, pc |-> IF code = 0 THEN "findById" ELSE "refused",
                  product |-> InitialProducts[req.items[1].product]])
           /\ resp' = IF code = 0 THEN resp ELSE code
    /\ UNCHANGED <<catalog, orders, wallet, ledger, carrier, calls>>

\* Product.findById, the checks, and the decrement on the document in memory
FetchProduct(k) ==
    /\ procs[k].pc = "findById"
    /\ LET item == procs[k].req.items[1]
           product == products[item.product]
       IN  IF ItemPasses(products, item.seller, item, TRUE)
           THEN /\ procs' = [procs EXCEPT
                       ![k].pc = "save",
                       ![k].product =
                           [product EXCEPT !.stock = @ - item.quantity,
                                           !.totalSold = @ + item.quantity]]
                /\ UNCHANGED resp
           ELSE /\ procs' = [procs EXCEPT ![k].pc = "thrown"]
                /\ resp' = 500
    /\ UNCHANGED <<catalog, orders, wallet, ledger, carrier, calls>>

\* product.save(): the modified paths, stock and totalSold, are written as
\* they stand in memory
SaveProduct(k) ==
    /\ procs[k].pc = "save"
    /\ products' = [products EXCEPT
          ![procs[k].req.items[1].product] =
              [@ EXCEPT !.stock = procs[k].product.stock,
                        !.totalSold = procs[k].product.totalSold]]
    /\ procs' = [procs EXCEPT ![k].pc = "order"]
    /\ UNCHANGED <<orders, wallet, coupon, cart, gateway, returns, withdrawals, payouts,
                   ledger, carrier, calls, resp>>

\* order.save()
SaveOrder(k) ==
    /\ procs[k].pc = "order"
    /\ LET req == procs[k].req
           item == req.items[1]
       IN  orders' = Append(orders,
              NewOrder(req.user, item.seller,
                       << [product |-> item.product, price |-> procs[k].product.price,
                           quantity |-> item.quantity] >>,
                       "razorpay", req.discount, req.coupon, "confirmed", "paid",
                       req.oid, req.pid, req.sig))
    /\ procs' = [procs EXCEPT ![k].pc = "finish"]
    /\ UNCHANGED <<catalog, wallet, ledger, carrier, calls, resp>>

\* the coupon (none in these requests), the cart and the answer
FinishCheckout(k) ==
    /\ procs[k].pc = "finish"
    /\ cart' = [cart EXCEPT ![procs[k].req.user] = 0]
    /\ procs' = [procs EXCEPT ![k].pc = "created"]
    /\ resp' = 201
    /\ UNCHANGED <<products, orders, wallet, coupon, gateway, returns, withdrawals,
                   payouts, ledger, carrier, calls>>

InitStock ==
    /\ InitRest
    /\ gateway \in { [q \in PaymentRefs |-> IF q = <<"p","2">> THEN g ELSE "captured"] :
                       g \in PaymentStates }
    /\ orders = <<>>

NextStock ==
    \/ \E req \in StockRequests : BeginCheckout(req)
    \/ \E k \in DOMAIN procs : FetchProduct(k)
    \/ \E k \in DOMAIN procs : SaveProduct(k)
    \/ \E k \in DOMAIN procs : SaveOrder(k)
    \/ \E k \in DOMAIN procs : FinishCheckout(k)

SpecStock == InitStock /\ [][NextStock]_vars

(***************************************************************************)
(* SpecSplit: checkouts of carts that span sellers, with and without a     *)
(* discount, some asking for more than the stock; and the delivery of an   *)
(* order stored without commission.                                        *)
(***************************************************************************)
\* two sellers; one seller twice and another; the second seller's item over
\* the stock; the first seller's second item over the stock; one item
SplitItemLists ==
    { <<Item("p1", 1), Item("p3", 1)>>,
      <<Item("p1", 2), Item("p2", 1), Item("p3", 2)>>,
      <<Item("p1", 1), Item("p3", 3)>>,
      <<Item("p1", 1), Item("p2", 2)>>,
      <<Item("p2", 1)>> }

SplitDiscounts == {0, 500}

SplitRequests ==
    [user : {"u1"}, items : SplitItemLists, paymentMethod : {"", "cod"},
     coupon : {TRUE}, discount : SplitDiscounts, oid : {<<"o","1">>},
     pid : {<<"p","1">>}, sig : {PaidSignature}]

InitSplit ==
    /\ InitRest
    /\ gateway = AllCaptured
    /\ orders \in {<<>>} \cup { <<o>> : o \in LegacyOrders }

SplitPaymentStep ==
    /\ Len(orders) < MaxOrders
    /\ \E req \in SplitRequests :
          req.paymentMethod = "" /\ createOrderWithPayment(req)

SplitCodStep ==
    /\ Len(orders) < MaxOrders
    /\ \E req \in SplitRequests :
          req.paymentMethod = "cod" /\ createOrder(req)

\* the delivery of an order stored without commission and sellerEarnings
SplitDeliverStep ==
    /\ \E i \in DOMAIN orders :
          ~orders[i].hasEarnings /\ updateOrderStatus(i, "delivered")
    /\ UNCHANGED calls

NextSplit ==
    \/ SplitPaymentStep
    \/ SplitCodStep
    \/ SplitDeliverStep

SpecSplit == InitSplit /\ [][NextSplit]_vars

(***************************************************************************)
(* SpecRefund: the life of one order paid online, placed with and without  *)
(* a coupon discount, up to its cancellation and refund.                   *)
(***************************************************************************)
\* orders as createOrderWithPayment leaves them for a checkout with coupon
DiscountedOrders ==
    { NewOrder("u1", "s1", OneItem("p2"), "razorpay", discount, discount > 0,
               "confirmed", "paid", <<"o","1">>, <<"p","1">>, PaidSignature) :
        discount \in SplitDiscounts }

InitRefund ==
    /\ InitRest
    /\ gateway = AllCaptured
    /\ orders \in { <<o>> : o \in DiscountedOrders }

SpecRefund == InitRefund /\ [][Next]_vars

(***************************************************************************)
(* Properties of updateOrderStatus (SpecUpdates, SpecRace).                *)
(***************************************************************************)
\* the order was created by createOrder: cash on delivery, nothing paid
CashOnDelivery(order) ==
    order.paymentMethod = "cod" /\ order.razorpayPaymentId = <<>>

\* C1 as stated: in a run of updateOrderStatus calls, one after another,
\* that holds two or more 'delivered' calls on a COD order, the seller's
\* wallet has been credited with sellerEarnings exactly once.
CreditedExactlyOnce ==
    orders[1].paymentMethod = "cod" /\ calls.accepted + calls.rejected >= 2
        => /\ ledger["credit"].n = 1
           /\ ledger["credit"].total = orders[1].sellerEarnings

\* C1 amended: in such a run the wallet is credited at most once, and with
\* sellerEarnings; it is credited exactly once when a 'delivered' call was
\* accepted on an order created unpaid; a 'delivered' call that finds the
\* order cancelled is answered 400 and credits nothing, so a run whose
\* 'delivered' calls all come after a cancellation credits nothing.
CreditedAtMostOnce ==
    /\ ledger["credit"].n <= 1
    /\ ledger["credit"].n = 1
          => /\ ledger["credit"].total = orders[1].sellerEarnings
             /\ wallet[SellerUser(orders[1].seller)] = orders[1].sellerEarnings
             /\ orders[1].paymentStatus = "paid"
             /\ calls.accepted >= 1
    /\ CashOnDelivery(orders[1]) /\ calls.accepted >= 1 => ledger["credit"].n = 1
    /\ calls.accepted = 0 => ledger["credit"].n = 0 /\ wallet = [u \in Users |-> 0]

DeliveredTwiceCreditedOnce ==
    /\ CashOnDelivery(orders[1])
    /\ calls.accepted >= 2
    /\ ledger["credit"].n = 1

\* C2: when updateOrderStatus('delivered') requests on one COD order
\* interleave, or a request is retried after its save failed, the seller's
\* wallet is credited at most once.
RaceCreditsAtMostOnce == ledger["credit"].n <= 1

(***************************************************************************)
(* Properties of the life of an order (Spec).                              *)
(***************************************************************************)
OnlinePaid(order) == order.razorpayPaymentId # <<>> /\ order.paymentMethod # "cod"

\* C3: an order paid online is created with sellerCredited = false and no
\* wallet change, and once it is delivered (by the webhook's DEL or by a
\* status update) its seller has been credited exactly once and
\* sellerCredited is true.
OnlineCreditedOnDelivery ==
    \A i \in DOMAIN orders :
        OnlinePaid(orders[i]) /\ orders[i].orderStatus = "delivered"
            => /\ orders[i].sellerCredited
               /\ ledger["credit"].n = 1
               /\ ledger["credit"].total = orders[i].sellerEarnings

DeliveredIsFinal ==
    [][(CarrierWebhookStep \/ CarrierTrackStep) =>
          \A i \in DOMAIN orders :
              orders[i].orderStatus = "delivered"
                  => orders'[i].orderStatus = "delivered"]_vars

AllocationSumsToTotal ==
    \A i \in DOMAIN returns :
        returns[i].chargeAllocation.allocationApplied
            => returns[i].chargeAllocation.vendorCharge
                 + returns[i].chargeAllocation.adminCharge
               = returns[i].chargeAllocation.totalReturnCharge

\* C7: an approved request of category wrong_item, defective or
\* not_as_described on an order not in an RTO condition charges the vendor
\* the whole return charge and the platform nothing, whatever the forward
\* charge and whatever freight the carrier reported.
VendorFaultChargesVendor ==
    \A i \in DOMAIN returns :
        /\ returns[i].status = "approved"
        /\ returns[i].reasonCategory \in VendorFaultCategories
        /\ returns[i].chargeAllocation.scenario \in VendorFaultCategories
        => /\ returns[i].chargeAllocation.vendorCharge
                = returns[i].chargeAllocation.totalReturnCharge
           /\ returns[i].chargeAllocation.adminCharge = 0

(***************************************************************************)
(* Properties of concurrent approvals (SpecApprovals).                     *)
(***************************************************************************)
\* C5: over any interleaving of approveReturnRequest calls on one return
\* request, the vendor's wallet is debited at most once, the platform's
\* wallet is debited at most once and at most one reverse pickup is made.
ApprovalEffectsAtMostOnce ==
    /\ ledger["vendorCharge"].n <= 1
    /\ ledger["adminCharge"].n <= 1
    /\ ledger["reversePickup"].n <= 1

(***************************************************************************)
(* Properties of createOrderWithPayment (SpecCheckout).                    *)
(***************************************************************************)
\* the signature presented is the HMAC of orderRef|paymentRef under the
\* server's secret
SignedByServer(req) ==
    req.sig = createHmac(RAZORPAY_KEY_SECRET, req.oid \o <<"|">> \o req.pid)

\* C10: createOrderWithPayment stores orders (confirmed, paid) and takes
\* stock only when the signature over orderRef|paymentRef verified and the
\* payment fetched is 'captured'; when either check fails it answers 400
\* and leaves orders, products, coupon, cart and wallets as they were.
PaidOnlyWhenVerifiedAndCaptured ==
    [][\A req \in PaymentRequests :
          createOrderWithPayment(req) =>
              /\ orders' # orders \/ products' # products
                    => SignedByServer(req) /\ gateway[req.pid] = "captured"
              /\ ~SignedByServer(req) \/ gateway[req.pid] \in {"authorized", "failed"}
                    => /\ resp' = 400
                       /\ UNCHANGED <<orders, products, coupon, cart, wallet>>
              /\ \A i \in DOMAIN orders' \ DOMAIN orders :
                    /\ orders'[i].orderStatus = "confirmed"
                    /\ orders'[i].paymentStatus = "paid"
                    /\ orders'[i].razorpayPaymentId = req.pid]_vars

\* a paid order is in the store, its stock taken, and the checkout after
\* it was refused
PaidOrderThenRefusal ==
    /\ \E i \in DOMAIN orders :
          /\ orders[i].paymentStatus = "paid"
          /\ orders[i].razorpayPaymentId # <<>>
          /\ gateway[orders[i].razorpayPaymentId] = "captured"
    /\ products["p1"].stock < InitialProducts["p1"].stock
    /\ resp = 400

(***************************************************************************)
(* Properties of the split of a cart by seller (SpecSplit).                *)
(***************************************************************************)
\* the orders a step has added to the collection
Made == SubSeq(orders', Len(orders) + 1, Len(orders'))

\* some item of the request asks for more than the product has in stock
AsksOverStock(req) ==
    \E i \in DOMAIN req.items :
        products[req.items[i].product].stock < req.items[i].quantity

\* C11: when an item of an online checkout asks for more than its product's
\* stock, createOrderWithPayment creates no order and leaves stock and
\* totalSold of every product as they were, also of the items and sellers
\* it processed before the failing one.
OverStockCreatesNothing ==
    [][\A req \in SplitRequests :
          createOrderWithPayment(req) /\ AsksOverStock(req)
              => orders' = orders /\ products' = products]_vars

RECURSIVE SumOver(_, _)
SumOver(seq, field) ==
    IF seq = <<>> THEN 0 ELSE Head(seq)[field] + SumOver(Tail(seq), field)

\* C12: a checkout that is accepted (201) for items of N distinct sellers
\* adds exactly N orders, one per seller; the order of a seller holds the
\* request's items of that seller, in their order, at the product's unit
\* price, and its itemsPrice is the sum of unit price times quantity.
OneOrderPerSeller ==
    [][\A req \in SplitRequests :
          (createOrder(req) \/ createOrderWithPayment(req)) /\ resp' = 201
              => LET sellers == { req.items[i].seller : i \in DOMAIN req.items }
                 IN  /\ Len(Made) = Cardinality(sellers)
                     /\ \A s \in sellers :
                           Cardinality({ k \in DOMAIN Made : Made[k].seller = s }) = 1
                     /\ \A k \in DOMAIN Made :
                           LET mine == SelectSeq(req.items,
                                           LAMBDA it : it.seller = Made[k].seller)
                               lines == [j \in DOMAIN mine |->
                                           [amount |-> products[mine[j].product].price
                                                         * mine[j].quantity]]
                           IN  /\ Made[k].user = req.user
                               /\ Len(Made[k].orderItems) = Len(mine)
                               /\ \A j \in DOMAIN mine :
                                     /\ Made[k].orderItems[j].product = mine[j].product
                                     /\ Made[k].orderItems[j].quantity = mine[j].quantity
                                     /\ Made[k].orderItems[j].price
                                           = products[mine[j].product].price
                               /\ Made[k].itemsPrice = SumOver(lines, "amount")]_vars

\* a cart of three items of two sellers has become two orders, the first
\* of them with two items
CartSplitInTwo ==
    /\ resp = 201
    /\ Len(orders) = 2
    /\ orders[1].seller = "s1" /\ Len(orders[1].orderItems) = 2
    /\ orders[2].seller = "s2" /\ Len(orders[2].orderItems) = 1
    /\ orders[1].itemsPrice = 2 * 1050 + 100000

\* C13: the orders an accepted checkout with discount D adds record
\* discounts that sum to D, and their totalPrice values sum to the cart's
\* subtotal minus D.
DiscountSharedAmongOrders ==
    [][\A req \in SplitRequests :
          (createOrder(req) \/ createOrderWithPayment(req)) /\ resp' = 201
              => /\ SumOver(Made, "discount") = req.discount
                 /\ SumOver(Made, "totalPrice")
                       = SumOver(Made, "itemsPrice") - req.discount]_vars

\* C14: every stored order that carries commission and sellerEarnings,
\* written at checkout or computed by updateOrderStatus on delivery, has
\* commission = 7 per cent of itemsPrice rounded to the hundredth and
\* commission + sellerEarnings within one hundredth of itemsPrice; an
\* itemsPrice of 1000.00 gives 70.00 and 930.00.
CommissionIsSevenPercent ==
    \A i \in DOMAIN orders :
        orders[i].hasEarnings =>
            LET itemsPrice == orders[i].itemsPrice
                commission == orders[i].commission
                sum        == commission + orders[i].sellerEarnings
            IN  /\ 100 * commission - RatePercent * itemsPrice <= 50
                /\ RatePercent * itemsPrice - 100 * commission <= 50
                /\ sum - itemsPrice <= 1 /\ itemsPrice - sum <= 1
                /\ itemsPrice = 100000
                      => commission = 7000 /\ orders[i].sellerEarnings = 93000

\* an order stored without earnings was delivered and got them, and an
\* order of 1000.00 was placed after it
EarningsComputedBothWays ==
    /\ Len(orders) = 2
    /\ orders[1].hasEarnings /\ orders[1].paymentStatus = "paid"
    /\ orders[1].itemsPrice = 1050 /\ orders[1].commission = 74
    /\ wallet["vendor1"] = 976
    /\ orders[2].itemsPrice = 100000 /\ orders[2].commission = 7000

(***************************************************************************)
(* Properties of the seller's wallet (SpecWallet).                         *)
(***************************************************************************)
\* C15: however a delivery credit, a return-charge debit and a refund debit
\* on one seller interleave, the seller's walletBalance is the balance at
\* the start plus the credits issued minus the debits issued, and so is the
\* platform's: no wallet update is lost or overwritten.
NoWalletUpdateLost ==
    /\ wallet["vendor1"] = WalletAtStart["vendor1"] + ledger["credit"].total
                           - ledger["vendorCharge"].total
                           - ledger["refundDebit"].total
    /\ wallet["admin"] = WalletAtStart["admin"] - ledger["adminCharge"].total

\* the three requests were in flight together and each has changed the
\* wallet
ThreeWalletUpdatesLanded ==
    /\ Len(procs) = 3
    /\ \A k \in DOMAIN procs : procs[k].pc \in {"saving", "saveApplied", "refundSave"}
    /\ ledger["credit"].n = 1
    /\ ledger["vendorCharge"].n = 1
    /\ ledger["refundDebit"].n = 1
    /\ wallet["vendor1"] = 50000 + 976 - 8000 - 93000

(***************************************************************************)
(* Properties of createReturnRequest (SpecRequests, SpecRequestRace).      *)
(***************************************************************************)
\* the requests stored for the buyer and the order a body names
OfPair(body) ==
    { i \in DOMAIN returns :
        returns[i].user = body.user /\ returns[i].order = body.orderId }

\* C16: with calls one after another, createReturnRequest for a buyer and
\* an order that have a request in status requested, approved or picked
\* answers 400 and stores nothing; a request is stored only when every
\* earlier one of the pair is rejected, completed or cancelled, and then
\* exactly one is stored, in status requested.
DuplicateRequestRefused ==
    [][\A body \in RequestBodies :
          createReturnRequest(body) =>
              /\ (\E i \in OfPair(body) :
                     returns[i].status \in {"requested", "approved", "picked"})
                    => resp' = 400 /\ returns' = returns
              /\ returns' # returns
                    => /\ \A i \in OfPair(body) :
                             returns[i].status \in {"rejected", "completed", "cancelled"}
                       /\ Len(returns') = Len(returns) + 1
                       /\ SubSeq(returns', 1, Len(returns)) = returns
                       /\ returns'[Len(returns')].user = body.user
                       /\ returns'[Len(returns')].order = body.orderId
                       /\ returns'[Len(returns')].status = "requested"
                       /\ resp' = 201]_vars

\* a request was rejected, the pair asked again and was accepted, and a
\* further request of the pair has just been refused
AskedAgainAndRefused ==
    /\ Len(returns) = 2
    /\ returns[1].status = "rejected" /\ returns[2].status = "requested"
    /\ returns[1].user = returns[2].user /\ returns[1].order = returns[2].order
    /\ resp = 400

\* C17: in every state, also when createReturnRequest calls of one buyer
\* for one order interleave between the existence check and the insert, at
\* most one request in status requested, approved or picked exists per
\* buyer and order.
AtMostOneOpenRequest ==
    \A i, j \in DOMAIN returns :
        /\ returns[i].user = returns[j].user
        /\ returns[i].order = returns[j].order
        /\ returns[i].status \in {"requested", "approved", "picked"}
        /\ returns[j].status \in {"requested", "approved", "picked"}
        => i = j

(***************************************************************************)
(* Properties of withdrawals (SpecWithdrawals).                            *)
(***************************************************************************)
\* what the seller's orders have earned, less what was paid out, in
\* hundredths of a paisa
EarnedLessPaidOut(user) ==
    LET earning == { i \in DOMAIN orders :
                       /\ orders[i].seller = SellerOf(user)
                       /\ \/ orders[i].paymentMethod # "cod"
                             /\ orders[i].paymentStatus = "paid"
                          \/ orders[i].paymentMethod = "cod"
                             /\ orders[i].orderStatus = "delivered" }
        paidOut == { i \in DOMAIN withdrawals :
                       withdrawals[i].seller = user
                       /\ withdrawals[i].status = "processed" }
        earned == SumOver([i \in 1..Len(orders) |->
                             [eff |-> IF i \in earning THEN sellerEarnEff(orders[i])
                                      ELSE 0]], "eff")
        gone == SumOver([i \in 1..Len(withdrawals) |->
                             [amount |-> IF i \in paidOut THEN withdrawals[i].amount
                                         ELSE 0]], "amount")
    IN  IF earned > 100 * gone THEN earned - 100 * gone ELSE 0

\* C18: createWithdrawalRequest with an amount above the seller's available
\* balance (earnings of paid online orders and delivered COD orders less
\* the withdrawals paid out, and no less than 0) answers 400 and stores no Withdrawal; every
\* Withdrawal stored has an amount of at most the balance available when it
\* was requested.
WithdrawalWithinBalance ==
    [][\A req \in WithdrawalRequests :
          createWithdrawalRequest(req) =>
              /\ req.numeric /\ 100 * req.amount > EarnedLessPaidOut(req.user)
                    => resp' = 400 /\ withdrawals' = withdrawals
              /\ withdrawals' # withdrawals
                    => /\ Len(withdrawals') = Len(withdrawals) + 1
                       /\ withdrawals'[Len(withdrawals')].seller = req.user
                       /\ withdrawals'[Len(withdrawals')].status = "pending"
                       /\ withdrawals'[Len(withdrawals')].amount >= 1
                       /\ 100 * withdrawals'[Len(withdrawals')].amount
                             <= EarnedLessPaidOut(req.user)]_vars

\* all that was earned was requested, stored and paid out, and the request
\* after it was refused
SecondWithdrawalRefused ==
    /\ Len(withdrawals) = 1
    /\ withdrawals[1].status = "processed" /\ withdrawals[1].amount = 93976
    /\ availableBalance("vendor1") < 100
    /\ resp = 400

\* C19: the status of a Withdrawal changes only from pending to approved,
\* from approved to processing, from processing to processed or paid, or
\* to rejected; once it is processed, paid or rejected no status update
\* changes it again.
WithdrawalStatusOnlyForward ==
    [][\A i \in DOMAIN withdrawals :
          LET from == withdrawals[i].status
              to   == withdrawals'[i].status
          IN  from # to =>
                  /\ from \notin {"processed", "paid", "rejected"}
                  /\ \/ to = "rejected"
                     \/ <<from, to>> \in { <<"pending", "approved">>,
                                           <<"approved", "processing">>,
                                           <<"processing", "processed">>,
                                           <<"processing", "paid">> }]_vars

(***************************************************************************)
(* Properties of cancelOrder (Spec).                                       *)
(***************************************************************************)
\* C20: cancelOrder moves an order to 'cancelled' only when its orderStatus
\* is pending, confirmed or processing; an order in any other status, such
\* as delivered or cancelled, is left as it was, status and shipment record
\* included.
CancelOnlyBeforeShipping ==
    [][CancelStep =>
          \A i \in DOMAIN orders :
              orders[i].orderStatus \notin {"pending", "confirmed", "processing"}
                  => orders'[i] = orders[i]]_vars

(***************************************************************************)
(* Properties of the status mapper and its two callers (SpecMapper).       *)
(***************************************************************************)
\* a tracking poll that found a shipment and stored what the mapper gave
Polled(track) == trackOrder(1, track) /\ track.success /\ track.found

\* C21: getStatusDetails gives, for a code of the status table, the row of
\* the table, and for every code the table does not hold, an empty or
\* missing code included, internalStatus 'processing', shippingStatus
\* 'shipped' and isReturning false; read off the order a tracking poll
\* stores the result in.
StatusDetailsFromTableOrDefault ==
    [][\A track \in Tracked(MapperCodes) :
          Polled(track) =>
              LET code == toUpperCase(track.statusCode)
                  row == IF code \in DOMAIN STATUS_MAP
                         THEN STATUS_MAP[code]
                         ELSE Row("processing", "shipped", FALSE)
              IN  /\ orders'[1].orderStatus = row.internalStatus
                  /\ orders'[1].shippingStatus = row.shippingStatus
                  /\ orders'[1].shipment.isReturning =
                        (orders[1].shipment.isReturning \/ row.isReturning)]_vars

\* the code starts with 'RTO' in any letter case
RtoPrefixed(statusCode) == startsWith(toUpperCase(statusCode), CodeRTO)

\* C22: a status code that starts with 'RTO', in any letter case and
\* whether or not the table holds it, marks the order's shipment as
\* returning when the webhook handler applies it and when a tracking poll
\* applies it.
RtoPrefixMarksReturning ==
    [][/\ \A payload \in MapperPayloads :
             webhook(payload) /\ RtoPrefixed(payload.status)
                 => orders'[1].shipment.isReturning
       /\ \A track \in Tracked(MapperCodes) :
             Polled(track) /\ RtoPrefixed(track.statusCode)
                 => orders'[1].shipment.isReturning]_vars

(***************************************************************************)
(* Properties of cancelled orders (Spec).                                  *)
(***************************************************************************)
\* C23: once an order's orderStatus is 'cancelled', no later operation,
\* status update, carrier webhook event or tracking poll, changes it to
\* another value, so a cancelled COD order never reaches the delivery
\* wallet credit.
CancelledIsFinal ==
    [][\A i \in DOMAIN orders :
          orders[i].orderStatus = "cancelled"
              => /\ orders'[i].orderStatus = "cancelled"
                 /\ ledger'["credit"] = ledger["credit"]]_vars

(***************************************************************************)
(* Properties of the charges an approval books (SpecReturn).               *)
(***************************************************************************)
\* C24: after approveReturnRequest, when chargeAllocation.allocationApplied
\* is true the amount taken from the vendor's wallet is the stored
\* vendorCharge and the amount taken from the platform's wallet is the
\* stored adminCharge; and when a positive vendorCharge or adminCharge is
\* stored, allocationApplied is true.
DeductedWhatIsStored ==
    \A i \in DOMAIN returns :
        LET chargeAllocation == returns[i].chargeAllocation
        IN  /\ chargeAllocation.allocationApplied =>
                  /\ ledger["vendorCharge"].total = chargeAllocation.vendorCharge
                  /\ ledger["adminCharge"].total = chargeAllocation.adminCharge
            /\ chargeAllocation.vendorCharge > 0 \/ chargeAllocation.adminCharge > 0
                  => chargeAllocation.allocationApplied

(***************************************************************************)
(* Properties of payouts (SpecPayouts).                                    *)
(***************************************************************************)
\* the amount paid out to a seller: every withdrawal that was stored as
\* processed counts once, whether its document still exists or not
PaidOut(user) ==
    LET made == payouts.made
        first(k) == /\ made[k].stored
                    /\ made[k].seller = user
                    /\ \A j \in 1..(k - 1) :
                          ~(made[j].stored /\ made[j].withdrawal = made[k].withdrawal)
    IN  SumOver([k \in 1..Len(made) |->
                    [amount |-> IF first(k) THEN made[k].amount ELSE 0]], "amount")

\* C25: after any sequence of createWithdrawalRequest,
\* updateWithdrawalStatus, deleteMyWithdrawal and adminDeleteWithdrawal
\* calls, the total of a seller's withdrawals that were paid out (moved to
\* 'processed') is at most the seller's total earnings.
PaidOutWithinEarnings ==
    \A user \in {"vendor1", "vendor2"} : 100 * PaidOut(user) <= totalEarnings(user)

\* C26: for each Withdrawal, createPayout is invoked at most once over any
\* sequence of updateWithdrawalStatus calls, and only when the status that
\* goes with it is then stored on the Withdrawal.
OnePayoutPerWithdrawal ==
    \A k \in DOMAIN payouts.made :
        payouts.made[k].createPayout =>
            /\ payouts.made[k].stored
            /\ \A j \in DOMAIN payouts.made :
                  j # k /\ payouts.made[j].createPayout
                      => payouts.made[j].withdrawal # payouts.made[k].withdrawal

(***************************************************************************)
(* Properties of the stock under concurrent checkouts (SpecStock).         *)
(***************************************************************************)
\* the quantity of a product in the orders stored
Sold(p) ==
    SumOver([i \in 1..Len(orders) |->
                [quantity |-> IF orders[i].orderItems[1].product = p
                              THEN orders[i].orderItems[1].quantity ELSE 0]],
            "quantity")

\* C27: for any interleaving of concurrent createOrderWithPayment calls,
\* the stock of a product never becomes negative and the quantity sold of
\* it through the online path does not exceed its initial stock.
StockNeverOversold ==
    \A p \in ProductIds :
        /\ products[p].stock >= 0
        /\ Sold(p) <= InitialProducts[p].stock

Mentions(doc, keywords) ==
    \E keyword \in keywords : includes(toLowerCase(doc.reasonText), keyword)

\* the scenario by first match: RTO of a COD order, RTO of any order, the
\* vendor-fault categories, the size issue, the changed mind
FirstMatch(doc, order) ==
    IF order.paymentMethod = "cod" /\ order.orderStatus = "cancelled" THEN "rto_cod"
    ELSE IF order.shipment.isReturning THEN "rto_online"
    ELSE IF doc.reasonCategory \in VendorFaultCategories THEN doc.reasonCategory
    ELSE IF doc.reasonCategory = "size_issue"
        THEN IF Mentions(doc, customerFaultKeywords) /\ ~Mentions(doc, vendorFaultKeywords)
             THEN "size_issue_customer_fault"
             ELSE "size_issue_vendor_fault"
    ELSE IF doc.reasonCategory = "other" /\ Mentions(doc, customerChangedMindKeywords)
        THEN "customer_changed_mind"
    ELSE "other"

\* C29: the allocation approveReturnRequest stores names the scenario found
\* by first match (rto_cod for a cancelled COD order, rto_online for a
\* returning shipment, the category itself for wrong_item, defective and
\* not_as_described, the customer's fault for a size issue only when a
\* customer-fault keyword and no vendor-fault keyword is present, the
\* changed mind for "other" exactly when a changed-mind keyword is
\* present); only the two shared scenarios give the platform a share, and
\* every other scenario charges the vendor the whole return charge.
ScenarioByFirstMatch ==
    [][\A k \in DOMAIN procs :
          SaveAllocation(k) =>
            LET i == procs[k].i
                stored == returns'[i].chargeAllocation
            IN  /\ stored.scenario = FirstMatch(returns[i], procs[k].order)
                /\ stored.adminCharge > 0 => stored.scenario \in SharedScenarios
                /\ stored.scenario \notin SharedScenarios
                     => /\ stored.vendorCharge = returns'[i].returnShippingCharge
                        /\ stored.adminCharge = 0]_vars

\* a size issue whose text carries a keyword of each kind was approved as
\* the vendor's fault, and the vendor was charged the whole Rs 80
BothKeywordsVendorFault ==
    \E i \in DOMAIN returns :
        /\ returns[i].status = "approved"
        /\ returns[i].reasonCategory = "size_issue"
        /\ Mentions(returns[i], customerFaultKeywords)
        /\ Mentions(returns[i], vendorFaultKeywords)
        /\ returns[i].chargeAllocation.scenario = "size_issue_vendor_fault"
        /\ returns[i].chargeAllocation.vendorCharge = 8000
        /\ returns[i].chargeAllocation.adminCharge = 0
        /\ ledger["vendorCharge"].total = 8000

\* C30: for the two shared scenarios the approval stores, for a return
\* charge of R whole rupees, a vendor share of R/2 rounded half up and a
\* platform share of R less the vendor share: neither is negative, they
\* differ by at most one rupee and they add up to R.
SharedSplitHalfUp ==
    [][\A k \in DOMAIN procs :
          SaveAllocation(k) =>
            LET i == procs[k].i
                stored == returns'[i].chargeAllocation
                R == returns'[i].returnShippingCharge \div 100
                vendorCharge == stored.vendorCharge
                adminCharge == stored.adminCharge
            IN  stored.scenario \in SharedScenarios
                  => /\ returns'[i].returnShippingCharge = R * 100
                     /\ vendorCharge = ((R + 1) \div 2) * 100
                     /\ adminCharge = R * 100 - vendorCharge
                     /\ vendorCharge >= 0 /\ adminCharge >= 0
                     /\ vendorCharge - adminCharge \in {0, 100}
                     /\ vendorCharge + adminCharge = R * 100]_vars

\* a shared return charge of Rs 101 was stored as Rs 51 for the vendor and
\* Rs 50 for the platform, and both were taken
OddChargeSplit ==
    \E i \in DOMAIN returns :
        /\ returns[i].status = "approved"
        /\ returns[i].chargeAllocation.scenario \in SharedScenarios
        /\ returns[i].chargeAllocation.totalReturnCharge = 10100
        /\ returns[i].chargeAllocation.vendorCharge = 5100
        /\ returns[i].chargeAllocation.adminCharge = 5000
        /\ ledger["vendorCharge"].total = 5100
        /\ ledger["adminCharge"].total = 5000

=============================================================================
